---------------------------- MODULE Spec2Model ----------------------------
(***************************************************************************)
(* A model of the flux step sequencer's real-time core:                    *)
(*   - the audio kernel (src-tauri/src/engine/kernel.rs), its command      *)
(*     queue and the snapshot it publishes through a triple buffer;        *)
(*   - the snapshot poller thread (src-tauri/src/lib.rs);                  *)
(*   - the MIDI clock engine (src-tauri/src/engine/midi_engine.rs) and its *)
(*     command queue.                                                      *)
(*                                                                         *)
(* Number representation.  The kernel's f32 clock quantities               *)
(* (samples_per_step, step_phase) are kept in fixed point, in eighths of a *)
(* sample: at the kernel's fixed tempo of 120 BPM, samples_per_step is     *)
(* sample_rate / 8, so every value the clock takes is a whole number of    *)
(* eighths (and is exact in f32 as well).  Frequencies are in millihertz.  *)
(***************************************************************************)
EXTENDS Integers, Sequences, FiniteSets, TLC

(***************************************************************************)
(* Bounds of the model.                                                    *)
(***************************************************************************)
\* Capacity of a command ring buffer.  The program builds its queues with
\* RingBuffer::new(1024) (lib.rs:62, lib.rs:91); the model keeps the same
\* full/not-full discipline on a queue short enough to be filled.
QueueCapacity == 2
\* Number of calls of a command handler (successful or not) per queue.
MaxPushes == 3
\* Number of invocations of FluxKernel::process.
MaxCalls == 2
\* Largest number of frames in one output buffer.
MaxFrames == 1
\* Number of iterations of the MIDI engine's loop.
MaxTicks == 98
\* Number of reads the snapshot poller performs.
MaxPolls == 2
\* Frames per output buffer where the clock is followed around the pattern.
ClockBlock == 17
MaxTimed == 4
MaxTempoChanges == 1
MaxTracks == 5
MaxLateTicks == 13
LapBlock == 31

(***************************************************************************)
(* Program constants.                                                      *)
(***************************************************************************)
PARAM_PITCH == 0
NumParams == 128
NumSteps == 16
StartStep == 15
DefaultTempo == 120
DefaultNote == 60
DefaultVelocity == 100
DefaultFrequency == 440000
LastStepInit == 999

\* Option<T>: None is the empty tuple, Some(v) the tuple of v.
None == <<>>
Some(v) == <<v>>

(***************************************************************************)
(* The pattern data model (shared/models.rs).  Only the fields that one of *)
(* the engines reads or writes are kept.  p_locks, the array               *)
(* [Option<f32>; 128], is the set of the pairs <<index, value>> of its     *)
(* Some entries.                                                           *)
(***************************************************************************)
TrigTypes == {"None", "Note", "Lock", "SynthTrigger", "OneShot"}

AtomicStepDefault ==
    [trig_type |-> "None", note |-> DefaultNote, velocity |-> DefaultVelocity,
     p_locks |-> {}]

SubtrackDefault ==
    [voice_id |-> 0, steps |-> [i \in 1..NumSteps |-> AtomicStepDefault]]

\* LFOShape: Sine, Triangle, Square, Random, or Designer with its 16 points
\* (in thousandths); points is empty for the other shapes.
Shape(kind) == [kind |-> kind, points |-> <<>>]
Designer(points) == [kind |-> "Designer", points |-> points]

\* amount is in thousandths, speed in whole cycles per bar, phase in 96ths of
\* a cycle.
LFODefault ==
    [shape |-> Shape("Triangle"), destination |-> 74, amount |-> 0, speed |-> 1,
     phase |-> 0]

TrackDefault ==
    [id |-> 0, subtracks |-> <<SubtrackDefault>>, length |-> NumSteps,
     lfos |-> <<LFODefault>>]

PatternDefault ==
    [tracks |-> [i \in 1..4 |-> [TrackDefault EXCEPT !.id = i - 1]],
     bpm |-> DefaultTempo, master_length |-> NumSteps]

\* p_locks[param]
LockGet(step, param) ==
    IF \E pr \in step.p_locks : pr[1] = param
    THEN Some((CHOOSE pr \in step.p_locks : pr[1] = param)[2])
    ELSE None

\* Variant of the lock assignment that resets the other slots.
LockSetAlone(step, param, val) ==
    [step EXCEPT !.p_locks = IF val = None THEN {} ELSE {<<param, val[1]>>}]

\* p_locks[param] = val
LockSet(step, param, val) ==
    LET rest == {pr \in step.p_locks : pr[1] # param}
    IN  [step EXCEPT !.p_locks =
            IF val = None THEN rest ELSE rest \cup {<<param, val[1]>>}]

(***************************************************************************)
(* midi_to_freq: 440 * 2^((note - 69) / 12), in millihertz, for a whole    *)
(* note number: the equal-tempered frequencies of octave 5 (notes 60..71), *)
(* shifted by octaves.                                                     *)
(***************************************************************************)
OctaveFive ==
    <<261626, 277183, 293665, 311127, 329628, 349228,
      369994, 391995, 415305, 440000, 466164, 493883>>

midi_to_freq(note) == (OctaveFive[(note % 12) + 1] * 2^(note \div 12)) \div 32


(***************************************************************************)
(* The audio kernel: FluxKernel (kernel.rs).                               *)
(***************************************************************************)
\* AudioCommand, one record shape for all variants (unused fields are 0, or
\* None for val).
Cmd(op, track, step, param, val) ==
    [op |-> op, track |-> track, step |-> step, param |-> param, val |-> val]
Play == Cmd("Play", 0, 0, 0, None)
Stop == Cmd("Stop", 0, 0, 0, None)
SetGlobalVolume(v) == Cmd("SetGlobalVolume", 0, 0, 0, Some(v))
ToggleStep(t, s) == Cmd("ToggleStep", t, s, 0, None)
SetParamLock(t, s, p, v) == Cmd("SetParamLock", t, s, p, v)

\* sample_rate * 60.0 / (tempo * 4.0), in eighths of a sample.
SamplesPerBeat(sample_rate, tempo) == (sample_rate * 60 * 8) \div tempo
SamplesPerStep(sample_rate, tempo) == (sample_rate * 60 * 8) \div (tempo * 4)

\* The track FluxKernel::new builds: a kick on steps 0, 4, 8, 12.
KernelTrack ==
    [id |-> 0,
     subtracks |-> <<[voice_id |-> 0,
                      steps |-> [i \in 1..NumSteps |->
                          IF (i - 1) % 4 = 0
                          THEN [AtomicStepDefault EXCEPT !.trig_type = "Note",
                                                         !.note = 60]
                          ELSE AtomicStepDefault]]>>,
     length |-> NumSteps,
     lfos |-> <<>>]

\* FluxKernel::new(sample_rate, ..)
KernelNew(sample_rate) ==
    [pattern |-> [PatternDefault EXCEPT
                     !.tracks = Append(PatternDefault.tracks, KernelTrack),
                     !.bpm = DefaultTempo],
     is_playing |-> FALSE,
     playhead_sample |-> 0,
     sample_rate |-> sample_rate,
     tempo |-> DefaultTempo,
     samples_per_step |-> SamplesPerStep(sample_rate, DefaultTempo),
     step_phase |-> SamplesPerStep(sample_rate, DefaultTempo),
     current_step |-> StartStep,
     current_frequency |-> DefaultFrequency]

\* pattern.tracks.get(track_id)?.subtracks.get(0)?.steps.get(step_idx) is Some
HasStep(pattern, track_id, step_idx) ==
    /\ track_id < Len(pattern.tracks)
    /\ 0 < Len(pattern.tracks[track_id + 1].subtracks)
    /\ step_idx < Len(pattern.tracks[track_id + 1].subtracks[1].steps)

StepAt(pattern, track_id, step_idx) ==
    pattern.tracks[track_id + 1].subtracks[1].steps[step_idx + 1]

WithStep(pattern, track_id, step_idx, step) ==
    [pattern EXCEPT
        !.tracks[track_id + 1].subtracks[1].steps[step_idx + 1] = step]

\* Variants of Stop: one that only clears the flag, one that rewinds to step 0.
StopKernelFlagOnly(k) == [k EXCEPT !.is_playing = FALSE]
StopKernelAtStepZero(k) ==
    [k EXCEPT !.is_playing = FALSE,
              !.playhead_sample = 0,
              !.current_step = 0,
              !.step_phase = k.samples_per_step]

\* Variant of Play that starts again from the top of the pattern.
PlayKernelRestart(k) ==
    [k EXCEPT !.is_playing = TRUE,
              !.playhead_sample = 0,
              !.current_step = StartStep,
              !.step_phase = k.samples_per_step]

\* AudioCommand::Play
PlayKernel(k) == [k EXCEPT !.is_playing = TRUE]

\* Variant of Stop that leaves the playhead where it is.
StopKernelKeepPlayhead(k) ==
    [k EXCEPT !.is_playing = FALSE,
              !.current_step = StartStep,
              !.step_phase = k.samples_per_step]

\* AudioCommand::Stop
StopKernel(k) ==
    [k EXCEPT !.is_playing = FALSE,
              !.playhead_sample = 0,
              !.current_step = StartStep,
              !.step_phase = k.samples_per_step]

\* Variant of ToggleStep that cycles through all the trigger kinds.
ToggleStepKernelCycle(k, track_id, step_idx) ==
    IF HasStep(k.pattern, track_id, step_idx)
    THEN LET step == StepAt(k.pattern, track_id, step_idx)
             trig == CASE step.trig_type = "None" -> "Note"
                       [] step.trig_type = "Note" -> "Lock"
                       [] step.trig_type = "Lock" -> "SynthTrigger"
                       [] step.trig_type = "SynthTrigger" -> "OneShot"
                       [] OTHER -> "None"
         IN  [k EXCEPT !.pattern = WithStep(k.pattern, track_id, step_idx,
                                            [step EXCEPT !.trig_type = trig])]
    ELSE k

\* AudioCommand::ToggleStep(track_id, step_idx)
ToggleStepKernel(k, track_id, step_idx) ==
    IF HasStep(k.pattern, track_id, step_idx)
    THEN LET step == StepAt(k.pattern, track_id, step_idx)
             trig == IF step.trig_type = "None" THEN "Note" ELSE "None"
         IN  [k EXCEPT !.pattern = WithStep(k.pattern, track_id, step_idx,
                                            [step EXCEPT !.trig_type = trig])]
    ELSE k

\* Variant of SetParamLock without the check of param_id.
SetParamLockKernelUnchecked(k, track_id, step_idx, param_id, val) ==
    IF HasStep(k.pattern, track_id, step_idx)
    THEN [k EXCEPT !.pattern =
             WithStep(k.pattern, track_id, step_idx,
                      LockSet(StepAt(k.pattern, track_id, step_idx),
                              param_id, val))]
    ELSE k

\* AudioCommand::SetParamLock(track_id, step_idx, param_id, val)
SetParamLockKernel(k, track_id, step_idx, param_id, val) ==
    IF HasStep(k.pattern, track_id, step_idx) /\ param_id < NumParams
    THEN [k EXCEPT !.pattern =
             WithStep(k.pattern, track_id, step_idx,
                      LockSet(StepAt(k.pattern, track_id, step_idx),
                              param_id, val))]
    ELSE k

\* One arm of the match in the command loop of FluxKernel::process.
ApplyCommand(k, cmd) ==
    CASE cmd.op = "Play" -> PlayKernel(k)
      [] cmd.op = "Stop" -> StopKernel(k)
      [] cmd.op = "SetGlobalVolume" -> k
      [] cmd.op = "ToggleStep" -> ToggleStepKernel(k, cmd.track, cmd.step)
      [] cmd.op = "SetParamLock" ->
            SetParamLockKernel(k, cmd.track, cmd.step, cmd.param, cmd.val)

\* Variant of the pitch resolution that ignores the lock.
ResolvePitchNoteOnly(step) == step.note

\* step.p_locks[PARAM_PITCH].unwrap_or(step.note as f32)
ResolvePitch(step) ==
    IF LockGet(step, PARAM_PITCH) # None
    THEN LockGet(step, PARAM_PITCH)[1]
    ELSE step.note

\* Variant of the boundary test with a strict comparison.
CrossesBoundaryStrict(k) == k.step_phase + 8 > k.samples_per_step

\* The frame crosses a step boundary: step_phase + 1.0 >= samples_per_step.
CrossesBoundary(k) == k.step_phase + 8 >= k.samples_per_step

\* (current_step + 1) % 16
NextStep(k) == (k.current_step + 1) % 16

\* Variant of the phase update that restarts the phase on a boundary.
PhaseAfterRestart(k) == IF CrossesBoundary(k) THEN 0 ELSE k.step_phase + 8

\* Variant of the phase update that never takes the step length off.
PhaseAfterUnbounded(k) == k.step_phase + 8

\* step_phase after the frame: += 1.0, and -= samples_per_step on a boundary.
PhaseAfter(k) ==
    IF CrossesBoundary(k)
    THEN k.step_phase + 8 - k.samples_per_step
    ELSE k.step_phase + 8

\* Variant of the trigger test that looks at the step on every track.
FrameTriggersAnyTrack(k) ==
    /\ k.is_playing
    /\ CrossesBoundary(k)
    /\ \E t \in 0..(Len(k.pattern.tracks) - 1) :
           /\ HasStep(k.pattern, t, NextStep(k))
           /\ StepAt(k.pattern, t, NextStep(k)).trig_type # "None"

\* The frame retriggers the voice: the step the clock lands on, on track 0 /
\* subtrack 0, exists and has a trigger.
FrameTriggers(k) ==
    /\ k.is_playing
    /\ CrossesBoundary(k)
    /\ HasStep(k.pattern, 0, NextStep(k))
    /\ StepAt(k.pattern, 0, NextStep(k)).trig_type # "None"

\* Variant of the frame in which the voice's playhead runs on while stopped.
ProcessFrameFreeRunning(k) ==
    IF ~k.is_playing THEN [k EXCEPT !.playhead_sample = @ + 1]
    ELSE LET cross == CrossesBoundary(k)
             trig == FrameTriggers(k)
         IN  [k EXCEPT
                !.step_phase = PhaseAfter(k),
                !.current_step = IF cross THEN NextStep(k) ELSE k.current_step,
                !.current_frequency =
                    IF trig
                    THEN midi_to_freq(ResolvePitch(StepAt(k.pattern, 0, NextStep(k))))
                    ELSE k.current_frequency,
                !.playhead_sample = (IF trig THEN 0 ELSE k.playhead_sample) + 1]

\* One iteration of the frame loop of FluxKernel::process: the kernel after it.
ProcessFrame(k) ==
    IF ~k.is_playing THEN k
    ELSE LET cross == CrossesBoundary(k)
             trig == FrameTriggers(k)
         IN  [k EXCEPT
                !.step_phase = PhaseAfter(k),
                !.current_step = IF cross THEN NextStep(k) ELSE k.current_step,
                !.current_frequency =
                    IF trig
                    THEN midi_to_freq(ResolvePitch(StepAt(k.pattern, 0, NextStep(k))))
                    ELSE k.current_frequency,
                !.playhead_sample = (IF trig THEN 0 ELSE k.playhead_sample) + 1]

\* The sample the frame writes to every channel, k being the kernel after the
\* frame: 0.0 when stopped, else sin(t * f * 2 pi) * 0.1 with
\* t = playhead_sample / sample_rate, kept as the pair that determines it.
Silence == [on |-> FALSE, playhead |-> 0, freq |-> 0]

\* Variant of the sample that sounds the test tone while stopped as well.
FrameSampleAlwaysOn(k) ==
    [on |-> TRUE, playhead |-> k.playhead_sample, freq |-> k.current_frequency]

FrameSample(k) ==
    IF k.is_playing
    THEN [on |-> TRUE, playhead |-> k.playhead_sample, freq |-> k.current_frequency]
    ELSE Silence

\* What the frame did to the clock (observation only): whether the step index
\* advanced, the step whose trigger was then looked at, whether it fired.
NoEvent == [advanced |-> FALSE, step |-> 0, fired |-> FALSE]
FrameEventOf(k) ==
    IF k.is_playing /\ CrossesBoundary(k)
    THEN [advanced |-> TRUE, step |-> NextStep(k), fired |-> FrameTriggers(k)]
    ELSE NoEvent

(***************************************************************************)
(* The snapshot cell: triple_buffer::TripleBuffer<AudioSnapshot>.  Three   *)
(* buffers; the writer owns buffers[input], the reader owns                *)
(* buffers[output], and the back index with its dirty bit is the one       *)
(* atomic word they exchange.  Each field of a buffer carries, as an       *)
(* observation, the number of the process invocation that wrote it (0: the *)
(* initial default).                                                       *)
(***************************************************************************)
\* AudioSnapshot::default()
SnapshotDefault ==
    [current_step |-> 0, is_playing |-> FALSE, stepBy |-> 0, playingBy |-> 0]

\* TripleBuffer::new(&AudioSnapshot::default()).split()
TripleBufferNew ==
    [buffers |-> <<SnapshotDefault, SnapshotDefault, SnapshotDefault>>,
     back |-> 1, dirty |-> FALSE, input |-> 2, output |-> 3]

\* Variant of the cell with one buffer shared by writer and reader.
WriteTargetShared(t) == t.output

\* The buffer snapshot_producer.write(..) stores the value into.
WriteTarget(t) == t.input

\* Variant of the write that never publishes.
PublishNothing(t) == t

\* Input::publish: swap the input buffer with the back buffer, set dirty.
Publish(t) == [t EXCEPT !.back = t.input, !.input = t.back, !.dirty = TRUE]

\* Output::update, the first half of snapshot_consumer.read(): if the back
\* buffer is dirty, swap it with the output buffer and clear the bit.
Update(t) ==
    IF t.dirty
    THEN [t EXCEPT !.back = t.output, !.output = t.back, !.dirty = FALSE]
    ELSE t

(***************************************************************************)
(* The MIDI clock engine: MidiEngine (midi_engine.rs).  LFO values are     *)
(* exact fractions num / den; the engine's f32 values approximate them.    *)
(* The wait for the next tick's deadline changes nothing but the deadline  *)
(* and is not part of the state here.                                      *)
(***************************************************************************)
PPQN == 24
BarTicks == 96
TicksPerStep == 6
MicrosPerMinute == 60000000
ResyncTicks == 10
\* u64::MAX microseconds (584542 years), as a time later than any the thread's
\* clock shows.
Saturated == 2000000000
DesignerLen == 16

\* EngineCommand, one record shape for all variants.
ECmd(op, track, lfo, step, val, shape, pat) ==
    [op |-> op, track |-> track, lfo |-> lfo, step |-> step, val |-> val,
     shape |-> shape, pattern |-> pat]
UpdatePattern(p) == ECmd("UpdatePattern", 0, 0, 0, 0, Shape("Sine"), Some(p))
SetLFOShape(t, l, shape) == ECmd("SetLFOShape", t, l, 0, 0, shape, None)
SetLFODesignerValue(t, l, st, v) ==
    ECmd("SetLFODesignerValue", t, l, st, v, Shape("Sine"), None)

\* MidiEngine::new
EngineNew == [pattern |-> None, ppqn |-> PPQN, bpm |-> DefaultTempo]

\* self.pattern is Some, and p.tracks.get_mut(track_id)?.lfos.get_mut(lfo_index)
\* is Some
HasLfo(e, track_id, lfo_index) ==
    /\ e.pattern # None
    /\ track_id < Len(e.pattern[1].tracks)
    /\ lfo_index < Len(e.pattern[1].tracks[track_id + 1].lfos)

\* Variant of UpdatePattern that keeps the engine's tempo.
UpdatePatternEngineKeepTempo(e, p) == [e EXCEPT !.pattern = Some(p)]

\* EngineCommand::UpdatePattern(p): self.bpm = p.bpm; self.pattern = Some(p)
UpdatePatternEngine(e, p) == [e EXCEPT !.bpm = p.bpm, !.pattern = Some(p)]

\* Variant of SetLFODesignerValue that makes the LFO a Designer when it is not
\* one, and takes the step modulo 16.
SetDesignerValueEngineAnyShape(e, cmd) ==
    IF HasLfo(e, cmd.track, cmd.lfo)
    THEN LET shape == e.pattern[1].tracks[cmd.track + 1].lfos[cmd.lfo + 1].shape
             points == IF shape.kind = "Designer" THEN shape.points
                       ELSE [i \in 1..DesignerLen |-> 0]
         IN  [e EXCEPT
                !.pattern[1].tracks[cmd.track + 1].lfos[cmd.lfo + 1].shape =
                    Designer([points EXCEPT
                                 ![(cmd.step % DesignerLen) + 1] = cmd.val])]
    ELSE e

\* EngineCommand::SetLFODesignerValue: points[step] = value, if the pattern,
\* the track and the LFO exist, the LFO's shape is Designer(points), and
\* step < 16.
SetDesignerValueEngine(e, cmd) ==
    IF /\ HasLfo(e, cmd.track, cmd.lfo)
       /\ e.pattern[1].tracks[cmd.track + 1].lfos[cmd.lfo + 1].shape.kind
             = "Designer"
       /\ cmd.step < DesignerLen
    THEN [e EXCEPT
            !.pattern[1].tracks[cmd.track + 1].lfos[cmd.lfo + 1]
                .shape.points[cmd.step + 1] = cmd.val]
    ELSE e

\* One arm of the match in the command loop of MidiEngine::run.
ApplyEngineCommand(e, cmd) ==
    CASE cmd.op = "UpdatePattern" -> UpdatePatternEngine(e, cmd.pattern[1])
      [] cmd.op = "SetLFOShape" ->
            IF HasLfo(e, cmd.track, cmd.lfo)
            THEN [e EXCEPT
                    !.pattern[1].tracks[cmd.track + 1].lfos[cmd.lfo + 1].shape =
                        cmd.shape]
            ELSE e
      [] cmd.op = "SetLFODesignerValue" -> SetDesignerValueEngine(e, cmd)

\* sin(2 pi p / 96) in millionths, p in 0..24; the rest of the cycle follows
\* by symmetry.
SineQuarter ==
    <<0, 65403, 130526, 195090, 258819, 321439, 382683, 442289, 500000,
      555570, 608761, 659346, 707107, 751840, 793353, 831470, 866025, 896873,
      923880, 946930, 965926, 980785, 991445, 997859, 1000000>>

Sine96(p) ==
    IF p <= 24 THEN SineQuarter[p + 1]
    ELSE IF p <= 48 THEN SineQuarter[48 - p + 1]
    ELSE IF p <= 72 THEN -SineQuarter[p - 48 + 1]
    ELSE -SineQuarter[96 - p + 1]

\* The Designer arm of calculate_lfo at phase p / 96, in 6000ths: idx_f is
\* p * 16 / 96 = p / 6, idx its floor and frac the remainder (p % 6) / 6.
DesignerValueNoWrap(points, p) ==
    LET idx == p \div 6
        p1 == points[(idx % DesignerLen) + 1]
        p2 == points[IF idx + 1 < DesignerLen THEN idx + 2 ELSE DesignerLen]
    IN  6 * p1 + (p2 - p1) * (p % 6)
DesignerValue(points, p) ==
    LET idx == p \div 6
        next_idx == (idx + 1) % DesignerLen
        p1 == points[(idx % DesignerLen) + 1]
        p2 == points[next_idx + 1]
    IN  6 * p1 + (p2 - p1) * (p % 6)

\* The waveform of calculate_lfo at phase p / 96, as a fraction.
RawLfo(shape, p) ==
    CASE shape.kind = "Sine" -> [num |-> Sine96(p), den |-> 1000000]
      [] shape.kind = "Triangle" ->
            [num |-> IF p < 24 THEN p ELSE IF p < 72 THEN 48 - p ELSE p - 96,
             den |-> 24]
      [] shape.kind = "Square" -> [num |-> IF p < 48 THEN 1 ELSE -1, den |-> 1]
      [] shape.kind = "Random" -> [num |-> Sine96(p), den |-> 1000000]
      [] shape.kind = "Designer" ->
            [num |-> DesignerValue(shape.points, p), den |-> 6000]

\* calculate_lfo(lfo, global_phase), global_phase being gp / 96: the waveform
\* times the amount (in thousandths).  The product with a sine, which is
\* known to the millionth, is kept to the millionth.
CalculateLfoUnscaled(lfo, gp) ==
    RawLfo(lfo.shape, (gp * lfo.speed + lfo.phase) % BarTicks)
calculate_lfo(lfo, gp) ==
    LET p == (gp * lfo.speed + lfo.phase) % BarTicks
        raw == RawLfo(lfo.shape, p)
    IN  IF raw.den = 1000000
        THEN [num |-> (raw.num * lfo.amount) \div 1000, den |-> raw.den]
        ELSE [num |-> raw.num * lfo.amount, den |-> raw.den * 1000]

\* Variant of the scaling without the clamp.
CcValueUnclamped(v) == (127 * (v.num + v.den)) \div (2 * v.den)

\* ((lfo_val + 1.0) / 2.0 * 127.0).clamp(0.0, 127.0) as u8
CcValue(v) ==
    LET x == (127 * (v.num + v.den)) \div (2 * v.den)
    IN  IF x < 0 THEN 0 ELSE IF x > 127 THEN 127 ELSE x

\* send_note_on, send_note_off, send_cc: the three bytes handed to midi_out.
\* channel is "track.id as u8"; 0x90 | (channel & 0x0F) is 0x90 + channel % 16.
NoteOff(channel, note) == <<128 + ((channel % 256) % 16), note, 0>>
ControlChange(channel, cc, val) == <<176 + ((channel % 256) % 16), cc, val>>

\* Variant of send_note_on that adds the channel without masking it.
NoteOnUnmasked(channel, note, velocity) ==
    <<144 + (channel % 256), note, velocity>>

\* send_note_on
NoteOn(channel, note, velocity) == <<144 + ((channel % 256) % 16), note, velocity>>

\* The concatenation of the sequences f(1), .., f(n).
RECURSIVE FlatMap(_, _, _)
FlatMap(f(_), n, i) == IF i > n THEN <<>> ELSE f(i) \o FlatMap(f, n, i + 1)

\* The LFO loop of process_tick for one track.
TrackCcs(track, gp) ==
    LET one(i) ==
            LET lfo == track.lfos[i]
            IN  IF lfo.amount # 0
                THEN <<ControlChange(track.id, lfo.destination,
                                     CcValue(calculate_lfo(lfo, gp)))>>
                ELSE <<>>
    IN  FlatMap(one, Len(track.lfos), 1)

\* The calls of calculate_lfo made by process_tick, in order: the LFO, the
\* global phase (in 96ths) and the value returned.
LfoCalls(tick, pattern) ==
    LET gp == tick % BarTicks
        track(t) ==
            LET one(i) ==
                    LET lfo == pattern.tracks[t].lfos[i]
                    IN  IF lfo.amount # 0
                        THEN <<<<lfo, gp, calculate_lfo(lfo, gp)>>>>
                        ELSE <<>>
            IN  FlatMap(one, Len(pattern.tracks[t].lfos), 1)
    IN  FlatMap(track, Len(pattern.tracks), 1)

\* Variant in which every trigger kind but None sends a note.
SendsNoteAnyKind(step) == step.trig_type # "None"

\* The trigger kinds process_tick sends a note for.
SendsNote(step) == step.trig_type = "Note"

\* Variant of the trigger loop that leaves the note on.
TrackNotesHeld(track, step_index) ==
    LET one(i) ==
            LET steps == track.subtracks[i].steps
            IN  IF step_index < Len(steps) /\ SendsNote(steps[step_index + 1])
                THEN <<NoteOn(track.id, steps[step_index + 1].note,
                              steps[step_index + 1].velocity)>>
                ELSE <<>>
    IN  FlatMap(one, Len(track.subtracks), 1)

\* The trigger loop of process_tick for one track.
TrackNotes(track, step_index) ==
    LET one(i) ==
            LET steps == track.subtracks[i].steps
            IN  IF step_index < Len(steps) /\ SendsNote(steps[step_index + 1])
                THEN <<NoteOn(track.id, steps[step_index + 1].note,
                              steps[step_index + 1].velocity),
                       NoteOff(track.id, steps[step_index + 1].note)>>
                ELSE <<>>
    IN  FlatMap(one, Len(track.subtracks), 1)

\* process_tick(tick_count, pattern): the messages sent, in order.
process_tick(tick, pattern) ==
    LET gp == tick % BarTicks
        ccs(i) == TrackCcs(pattern.tracks[i], gp)
        step_index == (tick \div TicksPerStep) % NumSteps
        notes(i) == TrackNotes(pattern.tracks[i], step_index)
    IN  FlatMap(ccs, Len(pattern.tracks), 1)
        \o (IF tick % TicksPerStep = 0
            THEN FlatMap(notes, Len(pattern.tracks), 1)
            ELSE <<>>)

(***************************************************************************)
(* State.                                                                  *)
(***************************************************************************)
VARIABLES
    kernel,         \* the FluxKernel's fields
    audioQueue,     \* the audio command ring buffer, oldest first
    kpc,            \* where the audio callback is:
                    \*   "idle", "drain", "frames", "write", "publish"
    framesLeft,     \* frames of the current output buffer not yet written
    output_buffer,  \* the samples written by the current invocation
    tb,             \* the triple buffer of AudioSnapshot
    poller,         \* the sync thread of lib.rs: pc, last_step, what it read
    events,         \* the playback-status events emitted, oldest first
    lastResult,     \* what the most recent command handler returned
    obs             \* observations of the run (no influence on it)

audioVars ==
    <<kernel, audioQueue, kpc, framesLeft, output_buffer, tb, poller, events,
      lastResult, obs>>

\* Sample rates of the output device.  The clock is the same at any rate with
\* more than one sample per step; 16 and 20 give samples_per_step = 2 and 2.5
\* (44100 gives 5512.5).
SampleRates == {16, 20}

ObsInit ==
    [pushed |-> <<>>,        \* commands enqueued successfully, in order
     applied |-> <<>>,       \* commands the kernel applied, in order
     attempts |-> 0,         \* handler calls so far
     dropped |-> 0,          \* handler calls that found the queue full
     calls |-> 0,            \* invocations of process so far
     startPushed |-> 0,      \* Len(pushed) when the current invocation began
     popped |-> 0,           \* commands popped by the current invocation
     framesSincePlay |-> 0,  \* frames processed since Stopped -> Playing
     stepAtPlay |-> StartStep, \* current_step at that transition
     frameEvent |-> NoEvent, \* what the most recent frame did
     written |-> <<>>]       \* snapshots published, in order

PollerInit ==
    [pc |-> "sleep",          \* "sleep", "compare", "emit"
     last_step |-> LastStepInit,
     step |-> 0,              \* snapshot.current_step as read for the comparison
     polls |-> 0,             \* reads so far
     heldBy |-> 0,            \* invocation that wrote the snapshot now held
     prevBy |-> 0]            \* invocation that wrote the one held before

AudioInitAt(rates) ==
    /\ \E sr \in rates : kernel = KernelNew(sr)
    /\ audioQueue = <<>>
    /\ kpc = "idle"
    /\ framesLeft = 0
    /\ output_buffer = <<>>
    /\ tb = TripleBufferNew
    /\ poller = PollerInit
    /\ events = <<>>
    /\ lastResult = "Ok"
    /\ obs = ObsInit

AudioInit == AudioInitAt(SampleRates)

VARIABLES
    engine,      \* the MidiEngine's fields
    midiQueue,   \* the MIDI command ring buffer, oldest first
    next_tick_time, \* the deadline of the latest tick, in microseconds since
                    \* the Instant::now() at the start of run
    clock,       \* the time the thread last read or waited for, likewise
    mpc,         \* where the MIDI thread is in an iteration of its loop:
                 \*  "drain" (command loop), "wait" (until the tick is due)
                 \*  "asleep" (in a thread::sleep that outlasts every run)
    tick_count,  \* the tick counter of MidiEngine::run
    midi_out,    \* the messages sent during the most recent tick, in order
    mobs         \* observations of the run (no influence on it)

midiVars == <<engine, midiQueue, mpc, tick_count, midi_out, next_tick_time,
              clock, mobs>>

MobsInit ==
    [pushed |-> <<>>,      \* commands enqueued successfully, in order
     applied |-> <<>>,     \* commands the engine applied, in order
     attempts |-> 0,       \* handler calls so far
     dropped |-> 0,        \* handler calls that found the queue full
     startPushed |-> 0,    \* Len(pushed) when the current iteration began
     popped |-> 0,         \* commands popped by the current iteration
     ticks |-> 0,          \* ticks processed with a pattern loaded
     tickStart |-> 0,      \* startPushed of the iteration of the latest tick
     tickPopped |-> 0,     \* popped of that iteration
     tickApplied |-> 0,    \* Len(applied) when the latest tick was processed
     periods |-> 0,        \* sum of the tick periods added to the deadline
     resyncs |-> 0,        \* times the deadline was reset to the current time
     late |-> 0,           \* how far past its deadline the latest tick ran
     lateSum |-> 0,        \* the same, summed over all ticks so far
     waited |-> FALSE,     \* whether the latest tick waited for its deadline
     lfo_calls |-> <<>>,   \* the calls of calculate_lfo of the latest tick
     lfo_memo |-> {}]      \* all calls of calculate_lfo before the latest tick

MidiInit ==
    /\ engine = EngineNew
    /\ midiQueue = <<>>
    /\ mpc = "drain"
    /\ tick_count = 0
    /\ midi_out = <<>>
    /\ next_tick_time = 0
    /\ clock = 0
    /\ mobs = MobsInit

(***************************************************************************)
(* The control surface's pattern (flux-app/src/ui).                        *)
(***************************************************************************)
VARIABLES
    pattern_signal,       \* the Pattern the UI edits (app.rs)
    show_confirm_dialog,  \* Option<usize>: the track whose removal awaits
                          \* confirmation (grid.rs)
    selected_step,        \* Option<(usize, usize)>: the selected track and step
    uobs                  \* the latest handler that ran (no influence on it)

uiVars == <<pattern_signal, show_confirm_dialog, selected_step, uobs>>

\* The handler op ran for row track (0 where it takes none) when the pattern
\* had count tracks.
Ran(op, track, count) == [op |-> op, track |-> track, count |-> count]

UiInit ==
    /\ pattern_signal = PatternDefault
    /\ show_confirm_dialog = None
    /\ selected_step = None
    /\ uobs = Ran("none", 0, 0)

\* pattern.tracks.len() <= 1: the test of is_disabled and the safety check of
\* do_remove_track.
IsDisabledNever(pattern) == FALSE
IsDisabled(pattern) == Len(pattern.tracks) <= 1

\* pattern.tracks.get(track_idx).and_then(|t| t.subtracks.get(0))
\*     .map(|st| st.steps.iter().any(|s| s.trig_type != TrigType::None))
\*     .unwrap_or(false)
HasData(pattern, track_idx) ==
    /\ track_idx < Len(pattern.tracks)
    /\ 0 < Len(pattern.tracks[track_idx + 1].subtracks)
    /\ \E i \in 1..Len(pattern.tracks[track_idx + 1].subtracks[1].steps) :
           pattern.tracks[track_idx + 1].subtracks[1].steps[i].trig_type # "None"

\* for (i, track) in pattern.tracks.iter_mut().enumerate() { track.id = i; }
KeepIds(tracks) == tracks
Reindex(tracks) == [i \in 1..Len(tracks) |-> [tracks[i] EXCEPT !.id = i - 1]]

\* pattern.tracks.remove(track_idx), for track_idx < len
RemoveAt(tracks, track_idx) ==
    SubSeq(tracks, 1, track_idx) \o SubSeq(tracks, track_idx + 2, Len(tracks))

\* The update closure of do_remove_track.
RemoveTrack(pattern, track_idx) ==
    IF IsDisabled(pattern) THEN pattern
    ELSE [pattern EXCEPT !.tracks = Reindex(RemoveAt(pattern.tracks, track_idx))]

\* The contexts App and Grid provide, by type. The selection signal travels
\* inside SequencerState and is not provided under its own type.
Contexts ==
    {"SequencerState", "ReadSignal<Pattern>", "WriteSignal<Pattern>",
     "ReadSignal<bool>", "WriteSignal<bool>",
     "ReadSignal<GridUIState>", "WriteSignal<GridUIState>"}

\* use_context::<T>().is_some()
use_context(type) == type \in Contexts

\* The end of do_remove_track: the selection is dropped if its track index is
\* no longer below the track count.
SelectionAfter(selected, pattern) ==
    IF selected # None /\ selected[1][1] >= Len(pattern.tracks)
    THEN None ELSE selected

\* The update closure of add_track.
AddTrack(pattern) ==
    [pattern EXCEPT
        !.tracks = Append(@, [TrackDefault EXCEPT !.id = Len(pattern.tracks)])]

\* The update closure of on_dblclick: None becomes Note, any other kind None.
DblClick(pattern, track_idx, step_idx) ==
    IF HasStep(pattern, track_idx, step_idx)
    THEN WithStep(pattern, track_idx, step_idx,
             [StepAt(pattern, track_idx, step_idx) EXCEPT
                 !.trig_type = IF @ = "None" THEN "Note" ELSE "None"])
    ELSE pattern

\* Handler calls so far, on both queues.
Attempts == obs.attempts + mobs.attempts

(***************************************************************************)
(* The control thread: the command handlers of commands.rs.  Each takes    *)
(* the producer's mutex, pushes one command and returns.                   *)
(***************************************************************************)
\* Variant of push that makes room in a full queue by discarding its oldest
\* command.
RingPushOverwrite(q, cmd) ==
    IF Len(q) < QueueCapacity
    THEN [ok |-> TRUE, q |-> Append(q, cmd)]
    ELSE [ok |-> TRUE, q |-> Append(Tail(q), cmd)]

\* producer.push(cmd) on a ring buffer of RingBuffer::new(capacity): Ok and
\* the command is queued, or Err(Full) and the queue is as it was.
RingPush(q, cmd) ==
    IF Len(q) < QueueCapacity
    THEN [ok |-> TRUE, q |-> Append(q, cmd)]
    ELSE [ok |-> FALSE, q |-> q]

\* producer.push(cmd).map_err(|_| err)
Push(cmd, err) ==
    /\ Attempts < MaxPushes
    /\ LET r == RingPush(audioQueue, cmd)
       IN  /\ audioQueue' = r.q
           /\ lastResult' = IF r.ok THEN "Ok" ELSE err
           /\ obs' = IF r.ok
                     THEN [obs EXCEPT !.attempts = @ + 1,
                                      !.pushed = Append(@, cmd)]
                     ELSE [obs EXCEPT !.attempts = @ + 1, !.dropped = @ + 1]
    /\ UNCHANGED <<kernel, kpc, framesLeft, output_buffer, tb, poller, events>>
    /\ UNCHANGED midiVars
    /\ UNCHANGED uiVars

set_playback_state(playing) ==
    Push(IF playing THEN Play ELSE Stop, "Command queue full")

toggle_step(track_id, step_idx) ==
    Push(ToggleStep(track_id, step_idx), "Queue full")

set_param_lock(track_id, step_idx, param_id, value) ==
    Push(SetParamLock(track_id, step_idx, param_id, value), "Queue full")

(***************************************************************************)
(* The audio callback: FluxKernel::process(output_buffer, channels).       *)
(***************************************************************************)
\* The audio device invokes the callback with a buffer of n frames.
KernelCall(n) ==
    /\ kpc = "idle"
    /\ obs.calls < MaxCalls
    /\ kpc' = "drain"
    /\ framesLeft' = n
    /\ output_buffer' = <<>>
    /\ obs' = [obs EXCEPT !.calls = @ + 1,
                          !.startPushed = Len(obs.pushed),
                          !.popped = 0]
    /\ UNCHANGED <<kernel, audioQueue, tb, poller, events, lastResult>>
    /\ UNCHANGED midiVars
    /\ UNCHANGED uiVars

\* Variant of pop that takes the newest command.
PopNewest(q) == Len(q)

\* "while let Ok(cmd) = self.command_consumer.pop()": pop takes the oldest
\* command ...
PopIndex(q) == 1

\* A queue without its i-th element.
Without(q, i) ==
    [j \in 1..(Len(q) - 1) |-> IF j < i THEN q[j] ELSE q[j + 1]]

\* Variant of the command loop that handles one command per processing unit.
DrainDoneAfterOne(q, popped) == q = <<>> \/ popped >= 1

\* ... and the loop ends when pop finds the queue empty, popped commands
\* after it began.
DrainDone(q, popped) == q = <<>>

\* One iteration of the command loop: pop a command and apply it.
KernelPop ==
    /\ kpc = "drain"
    /\ audioQueue # <<>>
    /\ ~DrainDone(audioQueue, obs.popped)
    /\ LET i == PopIndex(audioQueue)
           cmd == audioQueue[i]
       IN  /\ kernel' = ApplyCommand(kernel, cmd)
           /\ audioQueue' = Without(audioQueue, i)
           /\ obs' = [obs EXCEPT
                        !.applied = Append(@, cmd),
                        !.popped = @ + 1,
                        !.framesSincePlay =
                            IF cmd.op = "Play" /\ ~kernel.is_playing THEN 0 ELSE @,
                        !.stepAtPlay =
                            IF cmd.op = "Play" /\ ~kernel.is_playing
                            THEN kernel.current_step ELSE @]
    /\ UNCHANGED <<kpc, framesLeft, output_buffer, tb, poller, events, lastResult>>
    /\ UNCHANGED midiVars
    /\ UNCHANGED uiVars

\* pop() returns Err on the empty queue: the command loop ends.
KernelDrainEnd ==
    /\ kpc = "drain"
    /\ DrainDone(audioQueue, obs.popped)
    /\ kpc' = "frames"
    /\ UNCHANGED <<kernel, audioQueue, framesLeft, output_buffer, tb, poller,
                   events, lastResult, obs>>
    /\ UNCHANGED midiVars
    /\ UNCHANGED uiVars

\* One iteration of "for frame in output_buffer.chunks_mut(channels)".
KernelFrame ==
    /\ kpc = "frames"
    /\ framesLeft > 0
    /\ kernel' = ProcessFrame(kernel)
    /\ output_buffer' = Append(output_buffer, FrameSample(kernel'))
    /\ framesLeft' = framesLeft - 1
    /\ obs' = [obs EXCEPT
                 !.frameEvent = FrameEventOf(kernel),
                 !.framesSincePlay = IF kernel.is_playing THEN @ + 1 ELSE @]
    /\ UNCHANGED <<audioQueue, kpc, tb, poller, events, lastResult>>
    /\ UNCHANGED midiVars
    /\ UNCHANGED uiVars

\* snapshot_producer.write(AudioSnapshot { current_step, is_playing }): the
\* value is stored into the writer's buffer ...
KernelWrite ==
    /\ kpc = "frames"
    /\ framesLeft = 0
    /\ tb' = [tb EXCEPT !.buffers[WriteTarget(tb)] =
                 [current_step |-> kernel.current_step,
                  is_playing |-> kernel.is_playing,
                  stepBy |-> obs.calls, playingBy |-> obs.calls]]
    /\ kpc' = "publish"
    /\ UNCHANGED <<kernel, audioQueue, framesLeft, output_buffer, poller, events,
                   lastResult, obs>>
    /\ UNCHANGED midiVars
    /\ UNCHANGED uiVars

\* ... and published; process returns.
KernelPublish ==
    /\ kpc = "publish"
    /\ tb' = Publish(tb)
    /\ kpc' = "idle"
    /\ obs' = [obs EXCEPT !.written =
                 Append(@, [current_step |-> kernel.current_step,
                            is_playing |-> kernel.is_playing])]
    /\ UNCHANGED <<kernel, audioQueue, framesLeft, output_buffer, poller, events,
                   lastResult>>
    /\ UNCHANGED midiVars
    /\ UNCHANGED uiVars

(***************************************************************************)
(* The sync thread of lib.rs: every 16 ms it reads the latest snapshot and *)
(* emits a "playback-status" event if the step changed.                    *)
(***************************************************************************)
\* The snapshot the reader holds a reference to.
Held(t) == t.buffers[t.output]

\* let snapshot = snapshot_consumer.read();
PollRead ==
    /\ poller.pc = "sleep"
    /\ poller.polls < MaxPolls
    /\ tb' = Update(tb)
    /\ poller' = [poller EXCEPT !.pc = "compare",
                                !.polls = @ + 1,
                                !.prevBy = poller.heldBy,
                                !.heldBy = Held(tb').stepBy]
    /\ UNCHANGED <<kernel, audioQueue, kpc, framesLeft, output_buffer, events,
                   lastResult, obs>>
    /\ UNCHANGED midiVars
    /\ UNCHANGED uiVars

\* Variant of the comparison that finds every snapshot new.
StepChangedAlways(snapshot, last_step) == TRUE

\* snapshot.current_step != last_step
StepChanged(snapshot, last_step) == snapshot.current_step # last_step

\* if snapshot.current_step != last_step { .. }; thread::sleep(16 ms)
PollCompare ==
    /\ poller.pc = "compare"
    /\ poller' = [poller EXCEPT
                    !.pc = IF StepChanged(Held(tb), poller.last_step)
                           THEN "emit" ELSE "sleep",
                    !.step = Held(tb).current_step]
    /\ UNCHANGED <<kernel, audioQueue, kpc, framesLeft, output_buffer, tb, events,
                   lastResult, obs>>
    /\ UNCHANGED midiVars
    /\ UNCHANGED uiVars

\* app_handle.emit("playback-status", snapshot); last_step = snapshot.current_step;
\* thread::sleep(16 ms)
PollEmit ==
    /\ poller.pc = "emit"
    /\ events' = Append(events, [current_step |-> poller.step,
                                 is_playing |-> Held(tb).is_playing,
                                 stepBy |-> poller.heldBy,
                                 playingBy |-> Held(tb).playingBy])
    /\ poller' = [poller EXCEPT !.pc = "sleep", !.last_step = poller.step]
    /\ UNCHANGED <<kernel, audioQueue, kpc, framesLeft, output_buffer, tb,
                   lastResult, obs>>
    /\ UNCHANGED midiVars
    /\ UNCHANGED uiVars

(***************************************************************************)
(* The MIDI thread and the handlers that feed it (lib.rs).                 *)
(***************************************************************************)
\* state.command_producer.lock().unwrap().push(cmd).map_err(|_| err)
PushEngine(cmd, err) ==
    /\ Attempts < MaxPushes
    /\ LET r == RingPush(midiQueue, cmd)
       IN  /\ midiQueue' = r.q
           /\ lastResult' = IF r.ok THEN "Ok" ELSE err
           /\ mobs' = IF r.ok
                      THEN [mobs EXCEPT !.attempts = @ + 1,
                                        !.pushed = Append(@, cmd)]
                      ELSE [mobs EXCEPT !.attempts = @ + 1, !.dropped = @ + 1]
    /\ UNCHANGED <<engine, mpc, tick_count, midi_out, next_tick_time, clock>>
    /\ UNCHANGED <<kernel, audioQueue, kpc, framesLeft, output_buffer, tb, poller,
                   events, obs>>
    /\ UNCHANGED uiVars

set_lfo_shape(track_id, lfo_index, shape) ==
    PushEngine(SetLFOShape(track_id, lfo_index, shape),
               "Failed to send command to engine")

set_lfo_designer_value(track_id, lfo_index, step, value) ==
    PushEngine(SetLFODesignerValue(track_id, lfo_index, step, value),
               "Failed to send command to engine")

\* push_midi_command prints its arguments and returns Ok(()): the mapping to
\* an EngineCommand and the push are a TODO, so nothing is enqueued.
push_midi_command(command, step) ==
    /\ Attempts < MaxPushes
    /\ lastResult' = "Ok"
    /\ mobs' = [mobs EXCEPT !.attempts = @ + 1]
    /\ UNCHANGED <<engine, midiQueue, mpc, tick_count, midi_out, next_tick_time,
                   clock>>
    /\ UNCHANGED <<kernel, audioQueue, kpc, framesLeft, output_buffer, tb, poller,
                   events, obs>>
    /\ UNCHANGED uiVars

\* EngineCommand::UpdatePattern(p) pushed by the holder of the producer.  The
\* engine accepts the command; no handler of lib.rs sends it yet
\* (push_midi_command logs its arguments and returns Ok), so the result is
\* the ring buffer's own error.
SendUpdatePattern(p) == PushEngine(UpdatePattern(p), "PushError::Full")

\* One iteration of the command loop of MidiEngine::run.
MidiPop ==
    /\ mpc = "drain"
    /\ midiQueue # <<>>
    /\ ~DrainDone(midiQueue, mobs.popped)
    /\ LET i == PopIndex(midiQueue)
           cmd == midiQueue[i]
       IN  /\ engine' = ApplyEngineCommand(engine, cmd)
           /\ midiQueue' = Without(midiQueue, i)
           /\ mobs' = [mobs EXCEPT !.applied = Append(@, cmd),
                                   !.popped = @ + 1]
    /\ UNCHANGED <<mpc, tick_count, midi_out, next_tick_time, clock>>
    /\ UNCHANGED audioVars
    /\ UNCHANGED uiVars

\* pop() returns Err on the empty queue: the command loop ends and the thread
\* waits until the tick is due.
MidiDrainEnd ==
    /\ mpc = "drain"
    /\ DrainDone(midiQueue, mobs.popped)
    /\ mpc' = "wait"
    /\ UNCHANGED <<engine, midiQueue, tick_count, midi_out, next_tick_time,
                   clock, mobs>>
    /\ UNCHANGED audioVars
    /\ UNCHANGED uiVars

\* Variant of the tick that sends only while the audio transport is playing.
TickOutputWhilePlaying(e, tick) ==
    IF e.pattern # None /\ kernel.is_playing
    THEN process_tick(tick, e.pattern[1])
    ELSE <<>>

\* Variant of the tick that counts from the tick the pattern was loaded at.
TickOutputFromLoad(e, tick) ==
    IF e.pattern # None THEN process_tick(mobs.ticks, e.pattern[1]) ELSE <<>>

\* if let Some(pattern) = &self.pattern { process_tick(..) }: what a tick
\* sends.
TickOutput(e, tick) ==
    IF e.pattern # None THEN process_tick(tick, e.pattern[1]) ELSE <<>>

\* Duration::from_micros((60.0 / (bpm * ppqn) * 1_000_000.0) as u64), in
\* microseconds.  The cast saturates: a quotient that is negative gives 0,
\* and the infinite quotient of a tempo of 0 gives u64::MAX.
TickDuration(bpm, ppqn) ==
    IF bpm * ppqn = 0 THEN Saturated
    ELSE IF bpm * ppqn < 0 THEN 0
    ELSE MicrosPerMinute \div (bpm * ppqn)

\* next_tick_time += tick_duration
NextDeadlineFromNow(prev, now, tick_duration) == now + tick_duration
NextDeadline(prev, now, tick_duration) == prev + tick_duration

\* now - next_tick_time > tick_duration * 10
WayBehindAtTen(now, deadline, tick_duration) ==
    now - deadline >= tick_duration * ResyncTicks
WayBehind(now, deadline, tick_duration) ==
    now - deadline > tick_duration * ResyncTicks

\* Steps 2 to 4 of an iteration, with Instant::now() read stall microseconds
\* after the thread last looked at the clock: the deadline moves on by one
\* period; the thread sleeps and spins until it (now < next_tick_time), or is
\* behind and goes on at once, resetting the deadline when it is way behind;
\* then the tick is processed if a pattern is loaded, and counted.
MidiTickAt(stall) ==
    /\ mpc = "wait"
    /\ tick_count < MaxTicks
    /\ TickDuration(engine.bpm, engine.ppqn) # Saturated
    /\ LET tick_duration == TickDuration(engine.bpm, engine.ppqn)
           now == clock + stall
           deadline == NextDeadline(next_tick_time, clock, tick_duration)
           resync == /\ ~(now < deadline)
                     /\ WayBehind(now, deadline, tick_duration)
           ran == IF now < deadline THEN deadline ELSE now
       IN  /\ next_tick_time' = IF resync THEN now ELSE deadline
           /\ clock' = ran
           /\ mobs' = [mobs EXCEPT
                  !.ticks = IF engine.pattern # None THEN @ + 1 ELSE @,
                  !.tickStart = mobs.startPushed,
                  !.tickPopped = mobs.popped,
                  !.tickApplied = Len(mobs.applied),
                  !.startPushed = Len(mobs.pushed),
                  !.popped = 0,
                  !.periods = @ + tick_duration,
                  !.resyncs = IF resync THEN @ + 1 ELSE @,
                  !.late = ran - deadline,
                  !.lateSum = @ + (ran - deadline),
                  !.waited = now < deadline,
                  !.lfo_calls = IF engine.pattern # None
                                THEN LfoCalls(tick_count, engine.pattern[1])
                                ELSE <<>>,
                  !.lfo_memo = @ \cup {mobs.lfo_calls[i] :
                                           i \in 1..Len(mobs.lfo_calls)}]
    /\ midi_out' = TickOutput(engine, tick_count)
    /\ tick_count' = tick_count + 1
    /\ mpc' = "drain"
    /\ UNCHANGED <<engine, midiQueue>>
    /\ UNCHANGED audioVars
    /\ UNCHANGED uiVars

\* Steps 2 and 3 of an iteration at a tempo of 0: the period is u64::MAX
\* microseconds, the deadline moves 584542 years ahead, now < next_tick_time
\* holds, and thread::sleep(wait_time - 1ms) is entered.  Nothing the handlers
\* do wakes the thread: commands pushed from now on stay in the queue.
MidiSleep ==
    /\ mpc = "wait"
    /\ TickDuration(engine.bpm, engine.ppqn) = Saturated
    /\ next_tick_time' = NextDeadline(next_tick_time, clock, Saturated)
    /\ mpc' = "asleep"
    /\ mobs' = [mobs EXCEPT !.periods = @ + Saturated]
    /\ UNCHANGED <<engine, midiQueue, tick_count, midi_out, clock>>
    /\ UNCHANGED audioVars
    /\ UNCHANGED uiVars

\* An iteration whose thread is scheduled as soon as the previous tick is done.
Prompt == {0}
MidiTick == \E stall \in Prompt : MidiTickAt(stall)

(***************************************************************************)
(* The handlers of the control surface.  While the confirmation dialog is  *)
(* shown its overlay covers the page (confirm_dialog.rs: fixed inset-0),   *)
(* so only its own two buttons can be clicked.                             *)
(***************************************************************************)
Modal == show_confirm_dialog # None

\* TrackControls: the "+ Add Track" button.
add_track ==
    /\ ~Modal
    /\ Len(pattern_signal.tracks) < MaxTracks
    /\ pattern_signal' = AddTrack(pattern_signal)
    /\ uobs' = Ran("add_track", 0,
                 Len(pattern_signal.tracks))
    /\ UNCHANGED <<show_confirm_dialog, selected_step>>
    /\ UNCHANGED <<audioVars, midiVars>>

\* do_remove_track(track_idx, set_pattern_signal): the selection is looked up
\* as a context of its own signal type, and is left alone when there is none.
do_remove_track(track_idx) ==
    /\ pattern_signal' = RemoveTrack(pattern_signal, track_idx)
    /\ selected_step' =
          IF use_context("RwSignal<Option<(usize, usize)>>")
          THEN SelectionAfter(selected_step, pattern_signal')
          ELSE selected_step

\* RemoveTrackButton: a click on the button of row track_idx (there is one
\* button to each track).
handle_click(track_idx) ==
    /\ ~Modal
    /\ track_idx < Len(pattern_signal.tracks)
    /\ uobs' = Ran("handle_click", track_idx,
                 Len(pattern_signal.tracks))
    /\ IF IsDisabled(pattern_signal)
       THEN UNCHANGED <<pattern_signal, show_confirm_dialog, selected_step>>
       ELSE IF HasData(pattern_signal, track_idx)
       THEN /\ show_confirm_dialog' = Some(track_idx)
            /\ UNCHANGED <<pattern_signal, selected_step>>
       ELSE /\ do_remove_track(track_idx)
            /\ UNCHANGED show_confirm_dialog
    /\ UNCHANGED <<audioVars, midiVars>>

\* Grid: the dialog's "Remove Track" button.
on_confirm_remove ==
    /\ Modal
    /\ do_remove_track(show_confirm_dialog[1])
    /\ show_confirm_dialog' = None
    /\ uobs' = Ran("on_confirm_remove", show_confirm_dialog[1],
                 Len(pattern_signal.tracks))
    /\ UNCHANGED <<audioVars, midiVars>>

\* Grid: the dialog's "Cancel" button, a click outside it, or Escape.
on_cancel_remove ==
    /\ Modal
    /\ show_confirm_dialog' = None
    /\ uobs' = Ran("on_cancel_remove", show_confirm_dialog[1],
                 Len(pattern_signal.tracks))
    /\ UNCHANGED <<pattern_signal, selected_step>>
    /\ UNCHANGED <<audioVars, midiVars>>

\* GridStep: a click selects the step.
on_click(track_idx, step_idx) ==
    /\ ~Modal
    /\ track_idx < Len(pattern_signal.tracks)
    /\ selected_step' = Some(<<track_idx, step_idx>>)
    /\ uobs' = Ran("on_click", track_idx,
                 Len(pattern_signal.tracks))
    /\ UNCHANGED <<pattern_signal, show_confirm_dialog>>
    /\ UNCHANGED <<audioVars, midiVars>>

\* GridStep: a double click toggles the step in the UI's pattern.
on_dblclick(track_idx, step_idx) ==
    /\ ~Modal
    /\ track_idx < Len(pattern_signal.tracks)
    /\ pattern_signal' = DblClick(pattern_signal, track_idx, step_idx)
    /\ uobs' = Ran("on_dblclick", track_idx,
                 Len(pattern_signal.tracks))
    /\ UNCHANGED <<show_confirm_dialog, selected_step>>
    /\ UNCHANGED <<audioVars, midiVars>>

(***************************************************************************)
(* Specifications.                                                         *)
(***************************************************************************)
vars == <<audioVars, midiVars, uiVars>>

\* Inputs of the command handlers.
ToggleInputs == {<<0, 0>>}
LockInputs == {<<0, 0, PARAM_PITCH, Some(72)>>}

Init == AudioInit /\ MidiInit /\ UiInit

Next ==
    \/ \E playing \in BOOLEAN : set_playback_state(playing)
    \/ \E ts \in ToggleInputs : toggle_step(ts[1], ts[2])
    \/ \E l \in LockInputs : set_param_lock(l[1], l[2], l[3], l[4])
    \/ \E n \in 1..MaxFrames : KernelCall(n)
    \/ KernelPop
    \/ KernelDrainEnd
    \/ KernelFrame
    \/ KernelWrite
    \/ KernelPublish

Spec == Init /\ [][Next]_vars

\* The kernel and the transport handler, with output buffers long enough for
\* the clock to go all the way around the 16 steps.
NextClock ==
    \/ \E playing \in BOOLEAN : set_playback_state(playing)
    \/ KernelCall(ClockBlock)
    \/ KernelPop
    \/ KernelDrainEnd
    \/ KernelFrame
    \/ KernelWrite
    \/ KernelPublish

SpecClock == Init /\ [][NextClock]_vars

\* The kernel, started by the transport handler, and the snapshot poller
\* running beside it.
NextSnap ==
    \/ set_playback_state(TRUE)
    \/ \E n \in 1..MaxFrames : KernelCall(n)
    \/ KernelPop
    \/ KernelDrainEnd
    \/ KernelFrame
    \/ KernelWrite
    \/ KernelPublish
    \/ PollRead
    \/ PollCompare
    \/ PollEmit

SpecSnap == Init /\ [][NextSnap]_vars

\* A pattern sent to the MIDI engine: the default pattern
\* with a note on step 0 of track 0, whose LFO is a Designer ramp at full
\* depth.
RampPoints == [i \in 1..DesignerLen |-> 125 * (i - 1) - 1000]
SentPattern ==
    [PatternDefault EXCEPT
        !.tracks[1].subtracks[1].steps[1].trig_type = "Note",
        !.tracks[1].lfos[1].shape = Designer(RampPoints),
        !.tracks[1].lfos[1].amount = 1000]

\* Processing units run so far: invocations of the audio callback and ticks
\* of the MIDI loop.
UnitsRun == obs.calls + tick_count

\* The same pattern at another tempo.
SlowPattern == [SentPattern EXCEPT !.bpm = 90]
SentPatterns == {SentPattern, SlowPattern}

\* Both engines with their command queues: the transport handler and the
\* kernel, the pattern and LFO shape handlers and the MIDI engine; MaxCalls
\* processing units in all.
NextBoth ==
    \/ \E playing \in BOOLEAN : set_playback_state(playing)
    \/ UnitsRun < MaxCalls /\ KernelCall(1)
    \/ KernelPop
    \/ KernelDrainEnd
    \/ KernelFrame
    \/ KernelWrite
    \/ KernelPublish
    \/ SendUpdatePattern(SentPattern)
    \/ set_lfo_shape(0, 0, Shape("Square"))
    \/ MidiPop
    \/ MidiDrainEnd
    \/ UnitsRun < MaxCalls /\ MidiTick

\* The sample rate has no part in what the queues do.
InitBoth == Init /\ kernel.sample_rate = 16

SpecBoth == InitBoth /\ [][NextBoth]_vars

\* The MIDI engine alone, with the handlers that feed it, for MaxCalls
\* ticks.
NextMidi ==
    \/ \E p \in SentPatterns : SendUpdatePattern(p)
    \/ set_lfo_shape(0, 0, Shape("Square"))
    \/ set_lfo_designer_value(0, 0, 0, 1000)
    \/ MidiPop
    \/ MidiDrainEnd
    \/ tick_count < MaxCalls /\ MidiTick

SpecMidi == Init /\ [][NextMidi]_vars

\* Commands whose indices fall outside the kernel's pattern (5 tracks of 16
\* steps) or outside the 128 parameter slots.
BadToggleInputs == {<<5, 0>>, <<0, 16>>}
BadLockInputs ==
    {<<0, 0, NumParams, Some(72)>>, <<5, 0, PARAM_PITCH, Some(72)>>,
     <<4, 16, PARAM_PITCH, Some(72)>>}

\* The control thread acts between two invocations of the audio callback.
\* (Spec and SpecBoth interleave the handlers with the callback's steps; what
\* one command does to the kernel does not depend on when it was enqueued.)
Between == kpc = "idle"

\* The kernel, playing, fed commands with malformed indices.
NextGuard ==
    \/ Between /\ set_playback_state(TRUE)
    \/ Between /\ \E ts \in BadToggleInputs : toggle_step(ts[1], ts[2])
    \/ Between /\ \E l \in BadLockInputs : set_param_lock(l[1], l[2], l[3], l[4])
    \/ \E n \in 1..MaxFrames : KernelCall(n)
    \/ KernelPop
    \/ KernelDrainEnd
    \/ KernelFrame
    \/ KernelWrite
    \/ KernelPublish

SpecGuard == InitBoth /\ [][NextGuard]_vars

\* Step edits with valid indices: step 0 of track 0 (no trigger) and of
\* track 4 (the kick's Note), the pitch lock set and cleared, and a lock in
\* the last slot.
EditToggleInputs == {<<0, 0>>, <<4, 0>>}
EditLockInputs ==
    {<<4, 0, PARAM_PITCH, Some(72)>>, <<4, 0, PARAM_PITCH, None>>,
     <<4, 0, NumParams - 1, Some(1)>>}

\* The kernel, playing, and the two step-editing handlers.
NextEdit ==
    \/ Between /\ set_playback_state(TRUE)
    \/ Between /\ \E ts \in EditToggleInputs : toggle_step(ts[1], ts[2])
    \/ Between /\ \E l \in EditLockInputs : set_param_lock(l[1], l[2], l[3], l[4])
    \/ \E n \in 1..MaxFrames : KernelCall(n)
    \/ KernelPop
    \/ KernelDrainEnd
    \/ KernelFrame
    \/ KernelWrite
    \/ KernelPublish

SpecEdit == InitBoth /\ [][NextEdit]_vars

\* A pattern that exercises the tick: track 0 has one subtrack of 17 steps
\* carrying the four trigger kinds on steps 0..3 and a Note on step 16, and a
\* Designer LFO at full depth; track 1 has two subtracks, a Note on step 1 of
\* the second, and an LFO of amount 0; track 2 has id 300, a Note on step 2,
\* and two LFOs (a Sine of amount -0.5 to CC 1, a Square of amount 2).
LongSteps ==
    [i \in 1..(NumSteps + 1) |->
        CASE i = 1 -> [AtomicStepDefault EXCEPT !.trig_type = "Note",
                                                !.note = 64, !.velocity = 90]
          [] i = 2 -> [AtomicStepDefault EXCEPT !.trig_type = "Lock"]
          [] i = 3 -> [AtomicStepDefault EXCEPT !.trig_type = "SynthTrigger"]
          [] i = 4 -> [AtomicStepDefault EXCEPT !.trig_type = "OneShot"]
          [] i = NumSteps + 1 -> [AtomicStepDefault EXCEPT !.trig_type = "Note",
                                                           !.note = 67]
          [] OTHER -> AtomicStepDefault]

BusyPattern ==
    [PatternDefault EXCEPT
        !.tracks[1].subtracks = <<[voice_id |-> 0, steps |-> LongSteps]>>,
        !.tracks[1].lfos[1].shape = Designer(RampPoints),
        !.tracks[1].lfos[1].amount = 1000,
        !.tracks[2].subtracks =
            <<SubtrackDefault,
              [SubtrackDefault EXCEPT !.steps[2].trig_type = "Note",
                                      !.steps[2].note = 48]>>,
        !.tracks[3].id = 300,
        !.tracks[3].subtracks[1].steps[3].trig_type = "Note",
        !.tracks[3].lfos =
            <<[LFODefault EXCEPT !.shape = Shape("Sine"), !.amount = -500,
                                 !.destination = 1],
              [LFODefault EXCEPT !.shape = Shape("Square"), !.amount = 2000]>>]

TickPatterns == {SentPattern, BusyPattern}

\* The MIDI engine given its pattern before its first tick and running for
\* a bar and more.
NextTicks ==
    \/ tick_count = 0 /\ \E p \in TickPatterns : SendUpdatePattern(p)
    \/ MidiPop
    \/ MidiDrainEnd
    \/ MidiTick

SpecTicks == Init /\ [][NextTicks]_vars

\* The MIDI thread under scheduling stalls: the time between two looks at the
\* clock is nothing, a few periods, or just at and just over eleven periods of
\* 120 BPM (ten periods behind the new deadline), with the tempo going from the
\* 120 BPM of construction to 90 BPM.
Stalls == {0, 50000, 229163, 229164}

NextTiming ==
    \/ mobs.attempts < MaxTempoChanges /\ SendUpdatePattern(SlowPattern)
    \/ MidiPop
    \/ MidiDrainEnd
    \/ \E stall \in Stalls : tick_count < MaxTimed /\ MidiTickAt(stall)

SpecTiming == Init /\ [][NextTiming]_vars

\* The MIDI thread fed patterns of any tempo, 0 BPM among them.
StillPattern == [SentPattern EXCEPT !.bpm = 0]
AnyTempoPatterns == {SentPattern, StillPattern}

NextAnyTempo ==
    \/ \E p \in AnyTempoPatterns : SendUpdatePattern(p)
    \/ MidiPop
    \/ MidiDrainEnd
    \/ tick_count < MaxCalls /\ MidiTick
    \/ MidiSleep

SpecAnyTempo == Init /\ [][NextAnyTempo]_vars

\* Both engines and the control surface's step edits.  The MIDI engine is
\* first given the kernel's pattern, before any edit is issued; then steps are
\* toggled and locked through the handlers of the audio queue and reported
\* through push_midi_command.
SyncCommands == {<<"param_lock", 0>>}

NextSync ==
    \/ Attempts = 0 /\ SendUpdatePattern(kernel.pattern)
    \/ Between /\ engine.pattern # None /\ toggle_step(0, 0)
    \/ Between /\ engine.pattern # None
               /\ set_param_lock(0, 0, PARAM_PITCH, Some(72))
    \/ engine.pattern # None
           /\ \E c \in SyncCommands : push_midi_command(c[1], c[2])
    \/ UnitsRun < MaxCalls /\ KernelCall(1)
    \/ KernelPop
    \/ KernelDrainEnd
    \/ KernelFrame
    \/ KernelWrite
    \/ KernelPublish
    \/ MidiPop
    \/ MidiDrainEnd
    \/ UnitsRun < MaxCalls /\ MidiTick

SpecSync == InitBoth /\ [][NextSync]_vars

\* The control surface alone: tracks are added and removed, steps of the
\* first two rows are selected and toggled.
UiTracks == 0..(MaxTracks - 1)
UiSteps == {0}

NextUi ==
    \/ add_track
    \/ \E t \in UiTracks : handle_click(t)
    \/ on_confirm_remove
    \/ on_cancel_remove
    \/ \E t \in UiTracks, s \in UiSteps : on_click(t, s)
    \/ \E t \in 0..1, s \in UiSteps : on_dblclick(t, s)

SpecUi == Init /\ [][NextUi]_vars

\* Patterns for the LFO: the table 0, 1, 0, .. and a Sine, both at full depth
\* on track 0; and on two tracks the ramp at half depth and a negative Sine,
\* with the same Sine a second time and a Sine that starts a quarter cycle in.
SpikePoints == [i \in 1..DesignerLen |-> IF i = 2 THEN 1000 ELSE 0]
SpikePattern ==
    [PatternDefault EXCEPT
        !.tracks[1].lfos =
            <<[LFODefault EXCEPT !.shape = Designer(SpikePoints), !.amount = 1000],
              [LFODefault EXCEPT !.shape = Shape("Sine"), !.amount = 1000,
                                 !.destination = 1]>>]
DepthPattern ==
    [PatternDefault EXCEPT
        !.tracks[1].lfos =
            <<[LFODefault EXCEPT !.shape = Designer(RampPoints), !.amount = 500],
              [LFODefault EXCEPT !.shape = Shape("Sine"), !.amount = -500,
                                 !.destination = 1]>>,
        !.tracks[2].lfos =
            <<[LFODefault EXCEPT !.shape = Shape("Sine"), !.amount = -500,
                                 !.destination = 1],
              [LFODefault EXCEPT !.shape = Shape("Sine"), !.amount = 1000,
                                 !.phase = 24]>>]
LfoPatterns == {SpikePattern, DepthPattern}

\* The MIDI engine given a pattern before its first tick and evaluating its
\* LFOs for a bar and more.
NextLfo ==
    \/ tick_count = 0 /\ \E p \in LfoPatterns : SendUpdatePattern(p)
    \/ MidiPop
    \/ MidiDrainEnd
    \/ MidiTick

SpecLfo == Init /\ [][NextLfo]_vars

\* The MIDI engine and LFO commands that miss: a track or an LFO that does not
\* exist, a table step past the 16th, a table value for an LFO that is not a
\* Designer (track 1's Triangle), and any of them before a pattern is loaded.
\* The pattern is loaded once, and one command is in flight at a time, sent
\* while the thread is in its command loop.
MissingShapeInputs == {<<4, 0>>, <<0, 1>>}
MissingValueInputs == {<<4, 0, 0>>, <<0, 1, 0>>, <<0, 0, 16>>, <<1, 0, 0>>}

InCommandLoop == midiQueue = <<>> /\ mpc = "drain"

NextMiss ==
    \/ InCommandLoop /\ engine.pattern = None /\ SendUpdatePattern(SentPattern)
    \/ InCommandLoop
           /\ \E i \in MissingShapeInputs : set_lfo_shape(i[1], i[2], Shape("Square"))
    \/ InCommandLoop
           /\ \E i \in MissingValueInputs :
                  set_lfo_designer_value(i[1], i[2], i[3], 500)
    \/ MidiPop
    \/ MidiDrainEnd
    \/ tick_count < MaxCalls /\ MidiTick

SpecMiss == Init /\ [][NextMiss]_vars


\* The clock at short step lengths: sample rates of 8, 12 and 16 Hz give steps
\* of exactly one sample, of one and a half, and of two.
BoundaryRates == {8, 12, 16}

InitRates == AudioInitAt(BoundaryRates) /\ MidiInit /\ UiInit

SpecRates == InitRates /\ [][NextClock]_vars


\* Both engines side by side, the audio kernel driven by all four of its
\* handlers' commands while the MIDI engine is given one pattern and ticks.
NextApart ==
    \/ \E playing \in BOOLEAN : set_playback_state(playing)
    \/ Between /\ toggle_step(0, 0)
    \/ Between /\ set_param_lock(0, 0, PARAM_PITCH, Some(72))
    \/ mobs.attempts = 0 /\ SendUpdatePattern(SentPattern)
    \/ UnitsRun < MaxCalls /\ KernelCall(1)
    \/ KernelPop
    \/ KernelDrainEnd
    \/ KernelFrame
    \/ KernelWrite
    \/ KernelPublish
    \/ MidiPop
    \/ MidiDrainEnd
    \/ UnitsRun < MaxCalls /\ MidiTick

SpecApart == InitBoth /\ [][NextApart]_vars


\* A pattern whose first three steps play three different notes.
LatePattern ==
    [PatternDefault EXCEPT
        !.tracks[1].subtracks[1].steps[1].trig_type = "Note",
        !.tracks[1].subtracks[1].steps[2] =
            [AtomicStepDefault EXCEPT !.trig_type = "Note", !.note = 61],
        !.tracks[1].subtracks[1].steps[3] =
            [AtomicStepDefault EXCEPT !.trig_type = "Note", !.note = 62]]

\* The MIDI engine ticking from thread start, given its pattern at any moment
\* of the first two steps.
NextLate ==
    \/ SendUpdatePattern(LatePattern)
    \/ MidiPop
    \/ MidiDrainEnd
    \/ tick_count < MaxLateTicks /\ MidiTick

SpecLate == Init /\ [][NextLate]_vars


\* The transport started and stopped once, the kernel called with buffers of
\* one frame or of LapBlock frames (at 16 Hz the clock is on step 15 at the
\* end of the first LapBlock frames), and the poller beside it.  The audio
\* device keeps invoking the callback and the poller keeps looping, so both
\* are weakly fair; nothing makes the user press a button.
KernelSteps ==
    \/ \E n \in {1, LapBlock} : KernelCall(n)
    \/ KernelPop
    \/ KernelDrainEnd
    \/ KernelFrame
    \/ KernelWrite
    \/ KernelPublish

PollSteps == PollRead \/ PollCompare \/ PollEmit

NextLive ==
    \/ Attempts = 0 /\ set_playback_state(TRUE)
    \/ Attempts = 1 /\ set_playback_state(FALSE)
    \/ KernelSteps
    \/ PollSteps

SpecLive ==
    /\ InitBoth
    /\ [][NextLive]_vars
    /\ WF_vars(KernelSteps)
    /\ WF_vars(PollSteps)

(***************************************************************************)
(* Properties.                                                             *)
(***************************************************************************)
Last(q) == q[Len(q)]

\* The step just taken is the kernel applying cmd.
Applies(cmd) == obs'.applied = Append(obs.applied, cmd)

\* The clock and the voice playhead are where FluxKernel::new puts them.
AtStart(k) ==
    /\ k.playhead_sample = 0
    /\ k.current_step = NumSteps - 1
    /\ k.step_phase = k.samples_per_step

\* The kernel is inside the frame loop of an invocation, or past it, and has
\* written at least one frame: the pattern is the one those frames saw.
InBlock == kpc \in {"frames", "publish"} /\ output_buffer # <<>>

\* C1: the transport is a two-state machine.  The kernel is constructed
\* Stopped at the start position; applying Play makes it Playing; applying
\* Stop makes it Stopped with playhead_sample, current_step and step_phase at
\* their construction-time values (0, 15, samples_per_step); and nothing but
\* a Play or a Stop command changes is_playing.
C1_TransportStateMachine ==
    /\ ~kernel.is_playing /\ AtStart(kernel)
    /\ [][/\ Applies(Play) => kernel'.is_playing
          /\ Applies(Stop) => ~kernel'.is_playing /\ AtStart(kernel')
          /\ kernel'.is_playing # kernel.is_playing
                => Applies(Play) \/ Applies(Stop)]_vars

\* A Stop has just been applied to a kernel that had played frames.
C1_Witness ==
    /\ obs.applied # <<>>
    /\ Last(obs.applied) = Stop
    /\ obs.framesSincePlay > 0
    /\ kpc = "drain"
    /\ ~kernel.is_playing

\* C2: after the kernel goes from Stopped to Playing, the first frame it
\* processes moves current_step to 0 and looks at the trigger of step 0 of
\* track 0 (firing exactly if that step has a trigger).
C2_FirstFrameOnStepZero ==
    (kernel.is_playing /\ obs.framesSincePlay = 1) =>
        /\ kernel.current_step = 0
        /\ obs.frameEvent.advanced
        /\ obs.frameEvent.step = 0
        /\ InBlock =>
              (obs.frameEvent.fired <=>
                  kernel.pattern.tracks[1].subtracks[1].steps[1].trig_type # "None")

\* The first frame after Play, Stop, Play has been processed.
C2_Witness ==
    /\ obs.applied = <<Play, Stop, Play>>
    /\ kernel.is_playing
    /\ obs.framesSincePlay = 1
    /\ kpc = "frames"

\* C3 as claimed: after Play and exactly samples_per_step frames (a whole
\* number of them) the step index is one position past its value before Play.
C3_OnePosition ==
    (kernel.is_playing /\ 8 * obs.framesSincePlay = kernel.samples_per_step) =>
        kernel.current_step = (obs.stepAtPlay + 1) % NumSteps

\* C3, amended: after Play and exactly samples_per_step frames (a whole number
\* of them, at least 2) the step index is two positions past its value before
\* Play, modulo 16: the first frame moved it from 15 to 0, the last one from
\* 0 to 1.
C3_TwoPositions ==
    (kernel.is_playing /\ 8 * obs.framesSincePlay = kernel.samples_per_step) =>
        /\ kernel.current_step = (obs.stepAtPlay + 2) % NumSteps
        /\ kernel.current_step = 1

\* Exactly samples_per_step = 2 frames have been processed since Play.
C3_Witness ==
    /\ kernel.is_playing
    /\ kernel.samples_per_step = 16
    /\ obs.framesSincePlay = 2

C5_PitchResolution ==
    (InBlock /\ obs.frameEvent.fired) =>
        LET step == kernel.pattern.tracks[1].subtracks[1]
                        .steps[obs.frameEvent.step + 1]
            locks == {pr \in step.p_locks : pr[1] = PARAM_PITCH}
        IN  kernel.current_frequency =
                midi_to_freq(IF locks # {}
                             THEN (CHOOSE pr \in locks : TRUE)[2]
                             ELSE step.note)

\* A step with stored note 60 and a pitch lock of 72 has fired: 523.25 Hz.
C5_Witness ==
    /\ InBlock
    /\ obs.frameEvent.fired
    /\ LET step == StepAt(kernel.pattern, 0, obs.frameEvent.step)
       IN  step.note = 60 /\ LockGet(step, PARAM_PITCH) = Some(72)
    /\ kernel.current_frequency \in 523200..523300

\* C6: every invocation of process publishes exactly one snapshot, at its
\* end, carrying the kernel's current_step and is_playing at that point.
C6_OneSnapshotPerCall ==
    /\ Len(obs.written) = IF kpc = "idle" THEN obs.calls ELSE obs.calls - 1
    /\ (kpc = "idle" /\ obs.calls > 0) =>
          /\ tb.dirty
          /\ tb.buffers[tb.back] =
                [current_step |-> kernel.current_step,
                 is_playing |-> kernel.is_playing,
                 stepBy |-> obs.calls, playingBy |-> obs.calls]

\* Two invocations have returned, the kernel Stopped throughout, no command
\* ever applied, no step triggered.
C6_Witness ==
    /\ kpc = "idle"
    /\ obs.calls = 2
    /\ obs.applied = <<>>
    /\ ~kernel.is_playing
    /\ ~obs.frameEvent.fired

\* The snapshot invocation n published (invocation 0: the initial default).
WrittenBy(n) ==
    IF n = 0
    THEN [current_step |-> SnapshotDefault.current_step,
          is_playing |-> SnapshotDefault.is_playing]
    ELSE obs.written[n]

\* C7: with the poller reading while the audio thread writes, the snapshot a
\* read returns is, for as long as the poller uses it, a pair written by one
\* invocation (or the default); so is every event emitted from it; and a read
\* never returns a snapshot older than the previous read did.
C7_NoTornNoStaleRead ==
    /\ poller.pc # "sleep" =>
          /\ Held(tb).stepBy = Held(tb).playingBy
          /\ Held(tb).stepBy = poller.heldBy
          /\ poller.heldBy <= Len(obs.written)
          /\ Held(tb).current_step = WrittenBy(poller.heldBy).current_step
          /\ Held(tb).is_playing = WrittenBy(poller.heldBy).is_playing
    /\ \A i \in 1..Len(events) :
          /\ events[i].stepBy = events[i].playingBy
          /\ events[i].stepBy <= Len(obs.written)
          /\ events[i].current_step = WrittenBy(events[i].stepBy).current_step
          /\ events[i].is_playing = WrittenBy(events[i].stepBy).is_playing
    /\ poller.heldBy >= poller.prevBy

\* The poller is between its two uses of the snapshot of invocation 1 while
\* the audio thread has stored the next one and not yet published it.
C7_Witness ==
    /\ poller.pc = "emit"
    /\ poller.heldBy = 1
    /\ kpc = "publish"
    /\ obs.calls = 2


\* The first n commands enqueued are the first n commands applied.
FirstApplied(o, n) ==
    Len(o.applied) >= n /\ \A i \in 1..n : o.applied[i] = o.pushed[i]

\* C8: every command enqueued before a processing unit begins is applied in
\* that unit before the unit generates output.  Once an invocation of process
\* has left its command loop (so before its first frame and at every frame
\* after), every command that was enqueued when the invocation began has been
\* applied to the kernel; once an iteration of the MIDI loop has left its
\* command loop, and at the tick it then processes, every command that was
\* enqueued when the iteration began has been applied to the engine.
C8_DrainedBeforeOutput ==
    /\ kpc \in {"frames", "publish"} => FirstApplied(obs, obs.startPushed)
    /\ mpc = "wait" => FirstApplied(mobs, mobs.startPushed)
    /\ mobs.tickApplied >= mobs.tickStart

\* An invocation of process that began with two commands enqueued and applied
\* them has written a frame.
C8_Witness ==
    /\ kpc = "frames"
    /\ output_buffer # <<>>
    /\ obs.startPushed >= 2
    /\ obs.popped >= 2

\* C9: each engine applies the commands of its queue in the order of their
\* enqueuing, none twice, none skipped: the commands enqueued are, in order,
\* the commands applied followed by the commands still queued.  When the
\* command loop of an invocation ends after Play then Stop the kernel is
\* Stopped, and after Stop then Play it is Playing at the reset position.
C9_FifoOrder ==
    /\ obs.pushed = obs.applied \o audioQueue
    /\ mobs.pushed = mobs.applied \o midiQueue
    /\ (kpc = "frames" /\ output_buffer = <<>> /\ obs.popped >= 2) =>
          LET n == Len(obs.applied)
          IN  /\ (obs.applied[n - 1] = Play /\ obs.applied[n] = Stop)
                    => ~kernel.is_playing
              /\ (obs.applied[n - 1] = Stop /\ obs.applied[n] = Play)
                    => kernel.is_playing /\ AtStart(kernel)

\* The kernel, having played a frame, applied Stop then Play in one
\* invocation.
C9_Witness ==
    /\ kpc = "frames"
    /\ output_buffer = <<>>
    /\ obs.applied = <<Play, Stop, Play>>
    /\ obs.popped = 2
    /\ obs.framesSincePlay = 0

\* A handler call on the audio queue, on the MIDI queue.
AudioHandlerStep == obs'.attempts = obs.attempts + 1
MidiHandlerStep == mobs'.attempts = mobs.attempts + 1

\* C10: enqueuing into a full command queue returns the handler's error to
\* the caller, leaves the queue's contents as they were, and the command has
\* no effect on the engine then or later: the handler's step changes neither
\* queue nor engine, and every handler call is accounted for as either
\* dropped, or queued, or applied.
C10_FullQueueRejects ==
    /\ [](/\ Len(obs.applied) + Len(audioQueue) + obs.dropped = obs.attempts
          /\ Len(mobs.applied) + Len(midiQueue) + mobs.dropped = mobs.attempts
          /\ Len(audioQueue) <= QueueCapacity
          /\ Len(midiQueue) <= QueueCapacity)
    /\ [][/\ (AudioHandlerStep /\ Len(audioQueue) = QueueCapacity) =>
                /\ lastResult' \in {"Command queue full", "Queue full"}
                /\ audioQueue' = audioQueue
                /\ kernel' = kernel
                /\ obs'.dropped = obs.dropped + 1
          /\ (MidiHandlerStep /\ Len(midiQueue) = QueueCapacity) =>
                /\ lastResult' \in {"Failed to send command to engine",
                                    "PushError::Full"}
                /\ midiQueue' = midiQueue
                /\ engine' = engine
                /\ mobs'.dropped = mobs.dropped + 1]_vars

\* The transport handler has just been refused by the full audio queue.
C10_Witness ==
    /\ lastResult = "Command queue full"
    /\ obs.dropped = 1
    /\ Len(audioQueue) = QueueCapacity

\* The malformed commands the handlers send in SpecGuard.
BadCommands ==
    {ToggleStep(ts[1], ts[2]) : ts \in BadToggleInputs}
    \cup {SetParamLock(l[1], l[2], l[3], l[4]) : l \in BadLockInputs}

\* C11: SetParamLock with param_id >= 128, and ToggleStep or SetParamLock
\* with a track or step index outside the pattern, leave the whole kernel
\* state (pattern, transport, clock, voice) unchanged: every step of the
\* kernel that applies such a command leaves every field of the kernel as it
\* was.
C11_MalformedIgnored ==
    [][\A cmd \in BadCommands : Applies(cmd) => kernel' = kernel]_vars

\* The kernel, playing, has applied a SetParamLock for parameter 128.
C11_Witness ==
    /\ kernel.is_playing
    /\ obs.framesSincePlay > 0
    /\ Len(obs.applied) >= 2
    /\ Last(obs.applied) = SetParamLock(0, 0, NumParams, Some(72))

\* k2 is k1 but for the step (track_id, step_idx) of subtrack 0.
SameButStep(k1, k2, track_id, step_idx) ==
    [k2 EXCEPT !.pattern = WithStep(k2.pattern, track_id, step_idx,
                                    StepAt(k1.pattern, track_id, step_idx))] = k1

\* What the toggle makes of a trigger kind.
Toggled(kind) == IF kind = "None" THEN "Note" ELSE "None"

\* The kernel with the step (0, 0) given a trigger kind.
WithKind(kind) ==
    [kernel EXCEPT !.pattern.tracks[1].subtracks[1].steps[1].trig_type = kind]

\* C12: ToggleStep with valid indices turns the trigger kind of that step of
\* subtrack 0 from None to Note and from any other kind to None, never to
\* Lock, SynthTrigger or OneShot, and changes no other step and no other
\* field of the step.  Every step of the kernel that applies a ToggleStep
\* does exactly that; and whatever of the five kinds the step had, applying
\* the command gives Note for None and None for the others.
C12_ToggleStep ==
    /\ [](\A kind \in TrigTypes :
            StepAt(ApplyCommand(WithKind(kind), ToggleStep(0, 0)).pattern, 0, 0)
                = [StepAt(kernel.pattern, 0, 0) EXCEPT !.trig_type = Toggled(kind)])
    /\ [][\A ts \in EditToggleInputs :
            Applies(ToggleStep(ts[1], ts[2])) =>
                LET old == StepAt(kernel.pattern, ts[1], ts[2])
                    new == StepAt(kernel'.pattern, ts[1], ts[2])
                IN  /\ new = [old EXCEPT !.trig_type = Toggled(old.trig_type)]
                    /\ new.trig_type \in {"None", "Note"}
                    /\ SameButStep(kernel, kernel', ts[1], ts[2])]_vars

\* The playing kernel has toggled the kick's first step off and the first
\* step of track 0 on.
C12_Witness ==
    /\ kernel.is_playing
    /\ obs.applied = <<Play, ToggleStep(4, 0), ToggleStep(0, 0)>>
    /\ StepAt(kernel.pattern, 4, 0).trig_type = "None"
    /\ StepAt(kernel.pattern, 0, 0).trig_type = "Note"

\* The locks of a step other than the one in slot param.
OtherLocks(step, param) == {pr \in step.p_locks : pr[1] # param}

\* C13: SetParamLock with valid indices and param < 128 sets exactly
\* p_locks[param] of that step of subtrack 0 to the value (Some(v) sets the
\* lock, None clears it) and leaves every other lock, every other step, the
\* trigger kinds and the transport unchanged: on every step of the kernel
\* that applies such a command, the slot reads back as the value, the other
\* slots and the other fields of the step are as before, and so is the rest
\* of the kernel.
C13_SetParamLock ==
    [][\A l \in EditLockInputs :
         Applies(SetParamLock(l[1], l[2], l[3], l[4])) =>
            LET old == StepAt(kernel.pattern, l[1], l[2])
                new == StepAt(kernel'.pattern, l[1], l[2])
            IN  /\ LockGet(new, l[3]) = l[4]
                /\ OtherLocks(new, l[3]) = OtherLocks(old, l[3])
                /\ [new EXCEPT !.p_locks = old.p_locks] = old
                /\ SameButStep(kernel, kernel', l[1], l[2])
                /\ kernel'.is_playing = kernel.is_playing]_vars

\* The kick's first step has had its pitch lock set and cleared again, beside
\* a lock in slot 127 that is still there.
C13_Witness ==
    /\ obs.applied = <<SetParamLock(4, 0, NumParams - 1, Some(1)),
                       SetParamLock(4, 0, PARAM_PITCH, Some(72)),
                       SetParamLock(4, 0, PARAM_PITCH, None)>>
    /\ StepAt(kernel.pattern, 4, 0).p_locks = {<<NumParams - 1, 1>>}
    /\ StepAt(kernel.pattern, 4, 0).trig_type = "Note"

\* C14: Stop is idempotent.  Every step of the kernel that applies a Stop
\* while the kernel is Stopped leaves playhead_sample, current_step and
\* step_phase as they were.
C14_StopIdempotent ==
    [][(Applies(Stop) /\ ~kernel.is_playing) =>
          /\ kernel'.playhead_sample = kernel.playhead_sample
          /\ kernel'.current_step = kernel.current_step
          /\ kernel'.step_phase = kernel.step_phase
          /\ ~kernel'.is_playing]_vars

\* The kernel has played through one invocation, and in the next was stopped
\* and has applied a second Stop.
C14_Witness ==
    /\ obs.applied = <<Play, Stop, Stop>>
    /\ obs.framesSincePlay > 0
    /\ obs.calls = 2
    /\ obs.popped = 2

\* The step just taken is the MIDI engine applying cmd.
EngineApplies(cmd) == mobs'.applied = Append(mobs.applied, cmd)

\* C15: after the MIDI engine drains UpdatePattern(p), its cached pattern is
\* p, field for field, and its cached bpm is p.bpm; and in every state in
\* which a pattern is loaded, the cached bpm is the cached pattern's bpm.
C15_UpdatePatternRoundTrip ==
    /\ [](engine.pattern # None => engine.bpm = engine.pattern[1].bpm)
    /\ [][\A p \in SentPatterns :
            EngineApplies(UpdatePattern(p)) =>
                engine'.pattern = Some(p) /\ engine'.bpm = p.bpm]_vars

\* The engine has replaced a pattern it had edited by one at another tempo.
C15_Witness ==
    /\ mobs.applied = <<UpdatePattern(SentPattern),
                        SetLFOShape(0, 0, Shape("Square")),
                        UpdatePattern(SlowPattern)>>
    /\ engine.pattern = Some(SlowPattern)
    /\ engine.bpm = 90

\* The step just taken is the MIDI engine processing tick number tick_count
\* with a pattern loaded; midi_out' is what it sent.
TickStep == tick_count' = tick_count + 1 /\ engine.pattern # None

\* That tick is a step boundary, and the step index the engine uses on it.
OnBoundary == tick_count % (PPQN \div 4) = 0
ActiveIndex == (tick_count \div (PPQN \div 4)) % NumSteps

\* The kinds of message, by the high nibble of the status byte.
IsNoteOn(m) == m[1] \div 16 = 9
IsNoteOff(m) == m[1] \div 16 = 8
IsCc(m) == m[1] \div 16 = 11

\* Positions of the note-ons in a stream of messages.
NoteOns(out) == {i \in 1..Len(out) : IsNoteOn(out[i])}

\* The (track, subtrack) positions of pattern p that have a step at index idx
\* whose kind is in kinds.
StepsAt(p, idx, kinds) ==
    {ts \in (1..Len(p.tracks)) \X (1..2) :
        /\ ts[2] <= Len(p.tracks[ts[1]].subtracks)
        /\ idx < Len(p.tracks[ts[1]].subtracks[ts[2]].steps)
        /\ p.tracks[ts[1]].subtracks[ts[2]].steps[idx + 1].trig_type \in kinds}

\* Every one of those steps has a note-on with its note and velocity in out,
\* and out has no other note-on.
NoteOnsFor(p, idx, kinds, out) ==
    /\ \A ts \in StepsAt(p, idx, kinds) :
          LET step == p.tracks[ts[1]].subtracks[ts[2]].steps[idx + 1]
          IN  \E i \in NoteOns(out) :
                  out[i][2] = step.note /\ out[i][3] = step.velocity
    /\ Cardinality(NoteOns(out)) = Cardinality(StepsAt(p, idx, kinds))

C17_NoteOffFollows ==
    /\ \A i \in NoteOns(midi_out) :
          /\ i < Len(midi_out)
          /\ IsNoteOff(midi_out[i + 1])
          /\ midi_out[i + 1][1] % 16 = midi_out[i][1] % 16
          /\ midi_out[i + 1][2] = midi_out[i][2]
          /\ midi_out[i + 1][3] = 0
    /\ Cardinality({i \in 1..Len(midi_out) : IsNoteOff(midi_out[i])})
          = Cardinality(NoteOns(midi_out))

\* Tick 12 (step 2) has been processed: the track with id 300 sent its note
\* on channel 12 and the note-off after it.
C17_Witness ==
    /\ tick_count = 13
    /\ \E i \in 1..(Len(midi_out) - 1) :
          /\ midi_out[i] = <<9 * 16 + 12, 60, 100>>
          /\ midi_out[i + 1] = <<8 * 16 + 12, 60, 0>>

\* The steps of the (track, subtrack) position ts of pattern p.
StepsOf(p, ts) == p.tracks[ts[1]].subtracks[ts[2]].steps

\* The (track, subtrack) positions of p whose step number q, counted around
\* the subtrack's own number of steps, is a Note.
NotesAround(p, q) ==
    {ts \in (1..Len(p.tracks)) \X (1..2) :
        /\ ts[2] <= Len(p.tracks[ts[1]].subtracks)
        /\ Len(StepsOf(p, ts)) > 0
        /\ StepsOf(p, ts)[(q % Len(StepsOf(p, ts))) + 1].trig_type = "Note"}

\* C18 as stated: the MIDI engine evaluates triggers exactly on the ticks
\* with tick_count mod (ppqn/4) = 0, and the active step index on such a tick
\* is (tick_count / (ppqn/4)) mod step_count, step_count being the number of
\* steps of the loaded pattern's subtrack, so that the steps beyond the 16th
\* are reached: the notes sent on a boundary tick are those of the steps at
\* that index, and no note is sent on any other tick.
C18_IndexModStepCount ==
    [][TickStep =>
          IF OnBoundary
          THEN LET p == engine.pattern[1]
                   q == tick_count \div (PPQN \div 4)
               IN  /\ \A ts \in NotesAround(p, q) :
                         LET step == StepsOf(p, ts)[(q % Len(StepsOf(p, ts))) + 1]
                         IN  \E i \in NoteOns(midi_out') :
                                 /\ midi_out'[i][2] = step.note
                                 /\ midi_out'[i][3] = step.velocity
                   /\ Cardinality(NoteOns(midi_out'))
                         = Cardinality(NotesAround(p, q))
          ELSE NoteOns(midi_out') = {}]_vars

\* Tick 96 has been processed on the pattern whose first subtrack has 17
\* steps: the note sent is step 0's (64), not step 16's (67).
C18_Witness ==
    /\ tick_count = 97
    /\ engine.pattern = Some(BusyPattern)
    /\ \E i \in NoteOns(midi_out) : midi_out[i][2] = 64
    /\ \A i \in NoteOns(midi_out) : midi_out[i][2] # 67

\* Positions of the control changes in a stream of messages.
Ccs(out) == {i \in 1..Len(out) : IsCc(out[i])}

\* The (track, LFO) positions of pattern p whose LFO has an amount other
\* than 0.
ActiveLfos(p) ==
    {tl \in (1..Len(p.tracks)) \X (1..2) :
        /\ tl[2] <= Len(p.tracks[tl[1]].lfos)
        /\ p.tracks[tl[1]].lfos[tl[2]].amount # 0}

\* C19: on every tick on which a pattern is loaded, each LFO of each track
\* whose amount is not 0 has exactly one control change sent to its
\* destination (on its track's channel), with a value in 0..127, and an LFO
\* whose amount is 0 has none: the control changes of the tick are as many as
\* the LFOs with an amount.
C19_OneCcPerLfo ==
    [][TickStep =>
          LET p == engine.pattern[1]
          IN  /\ \A tl \in ActiveLfos(p) :
                    Cardinality(
                        {i \in Ccs(midi_out') :
                            /\ midi_out'[i][1] % 16 = p.tracks[tl[1]].id % 16
                            /\ midi_out'[i][2]
                                  = p.tracks[tl[1]].lfos[tl[2]].destination}) = 1
              /\ Cardinality(Ccs(midi_out')) = Cardinality(ActiveLfos(p))
              /\ \A i \in Ccs(midi_out') : midi_out'[i][3] \in 0..127]_vars

\* A tick of the pattern with three LFOs that have an amount and one that
\* has none: three control changes, the Square of amount 2 held at 127.
C19_Witness ==
    /\ engine.pattern = Some(BusyPattern)
    /\ tick_count = 2
    /\ Cardinality(Ccs(midi_out)) = 3
    /\ \E i \in Ccs(midi_out) : midi_out[i] = <<11 * 16 + 12, 74, 127>>

\* The channel of a track: its id masked to 4 bits.
ChannelOf(track) == track.id % 16

\* C20: every message the MIDI engine sends has 3 bytes and a status byte
\* that is its type (0x90 note-on, 0x80 note-off, 0xB0 control change) OR'ed
\* with the channel, the channel being the track id mod 16, whatever the
\* track id.  Every message of a tick has 3 bytes and a status of one of the
\* three types on the channel of one of the pattern's tracks; and each track
\* finds its messages under exactly those status bytes: the note-on and
\* note-off of each of its Note steps at the active index, and the control
\* change of each of its LFOs with an amount.
C20_StatusByte ==
    [][TickStep =>
          LET p == engine.pattern[1]
              out == midi_out'
          IN  /\ \A i \in 1..Len(out) :
                    /\ Len(out[i]) = 3
                    /\ out[i][1] \div 16 \in {8, 9, 11}
                    /\ \E t \in 1..Len(p.tracks) :
                          out[i][1] % 16 = ChannelOf(p.tracks[t])
              /\ \A tl \in ActiveLfos(p) :
                    \E i \in 1..Len(out) :
                        /\ out[i][1] = 176 + ChannelOf(p.tracks[tl[1]])
                        /\ out[i][2] = p.tracks[tl[1]].lfos[tl[2]].destination
              /\ OnBoundary =>
                    \A ts \in StepsAt(p, ActiveIndex, {"Note"}) :
                        LET step == StepsOf(p, ts)[ActiveIndex + 1]
                        IN  \E i \in 1..(Len(out) - 1) :
                                /\ out[i] = <<144 + ChannelOf(p.tracks[ts[1]]),
                                              step.note, step.velocity>>
                                /\ out[i + 1][1]
                                      = 128 + ChannelOf(p.tracks[ts[1]])]_vars

\* Tick 12 has been processed: the track with id 300 has sent its two control
\* changes as 0xBC and its note as 0x9C, 0x8C.
C20_Witness ==
    /\ tick_count = 13
    /\ engine.pattern = Some(BusyPattern)
    /\ Cardinality({i \in 1..Len(midi_out) : midi_out[i][1] = 188}) = 2
    /\ \E i \in 1..Len(midi_out) : midi_out[i][1] = 156
    /\ \E i \in 1..Len(midi_out) : midi_out[i][1] = 140

(***************************************************************************)
(* The tick clock of the MIDI thread.                                      *)
(***************************************************************************)
\* C21: as long as no resynchronisation has occurred, the deadline of the
\* latest tick is the thread's start time (0) plus the sum of the periods
\* used so far, however late the earlier ticks ran.
C21_DeadlineIsSumOfPeriods ==
    mobs.resyncs = 0 => next_tick_time = mobs.periods

\* Three ticks and more without a resynchronisation, at two tempos, some of
\* them late, and the latest one on time again.
C21_Witness ==
    /\ mobs.resyncs = 0
    /\ tick_count >= 3
    /\ mobs.lateSum > 0
    /\ mobs.waited
    /\ mobs.periods # tick_count * TickDuration(DefaultTempo, PPQN)
    /\ next_tick_time = mobs.periods

\* C22: a tick that runs more than 10 periods past its new deadline sets the
\* deadline to the current time; one that runs past it by 10 periods or less
\* keeps the deadline and is processed without waiting, one tick to the
\* iteration.
C22_ResyncOrCatchUp ==
    [][tick_count' # tick_count =>
        LET tick_duration == TickDuration(engine.bpm, engine.ppqn)
            deadline == next_tick_time + tick_duration
        IN  /\ tick_count' = tick_count + 1
            /\ clock' > deadline + 10 * tick_duration
                   => next_tick_time' = clock'
            /\ (clock' > deadline /\ clock' <= deadline + 10 * tick_duration)
                   => /\ next_tick_time' = deadline
                      /\ ~mobs'.waited
                      /\ clock' \in {clock + stall : stall \in Stalls}]_vars

\* The deadline has been reset once, and the latest tick ran behind a deadline
\* that was kept.
C22_Witness ==
    /\ mobs.resyncs = 1
    /\ ~mobs.waited
    /\ mobs.late > 0
    /\ next_tick_time < clock

(***************************************************************************)
(* Neither real-time loop stops.                                           *)
(***************************************************************************)
\* C23: whatever commands arrive, the audio callback is between or inside
\* invocations that return, and the MIDI thread is in its command loop or in
\* the wait for a tick that comes due: neither loop has stopped.
C23_LoopsKeepRunning ==
    /\ kpc \in {"idle", "drain", "frames", "write", "publish"}
    /\ mpc \in {"drain", "wait"}

\* A pattern of 0 BPM has been applied, the thread sleeps towards a deadline
\* of 584542 years, and a later command sits in the queue undrained.
C23_Witness ==
    /\ mpc = "asleep"
    /\ engine.bpm = 0
    /\ next_tick_time - clock >= Saturated
    /\ midiQueue # <<>>

(***************************************************************************)
(* The two engines' pattern copies.                                        *)
(***************************************************************************)
\* The control surface is quiet and both engines have caught up: both queues
\* are empty, the audio callback is between invocations and the MIDI thread
\* has finished its command loop.
Quiet ==
    /\ audioQueue = <<>>
    /\ midiQueue = <<>>
    /\ kpc = "idle"
    /\ mpc = "wait"

\* Every step of the kernel's pattern has the same trigger kind in the MIDI
\* engine's pattern.
PatternsAgree ==
    /\ engine.pattern # None
    /\ \A t \in 0..(Len(kernel.pattern.tracks) - 1) : \A s \in 0..(NumSteps - 1) :
          HasStep(kernel.pattern, t, s) =>
              /\ HasStep(engine.pattern[1], t, s)
              /\ StepAt(engine.pattern[1], t, s).trig_type
                     = StepAt(kernel.pattern, t, s).trig_type

\* C24: once the MIDI engine holds the pattern and the control surface has
\* gone quiet, the step edits applied to the audio kernel's copy have reached
\* the MIDI engine's copy: both agree on every step's trigger kind.
C24_CopiesConverge ==
    (Quiet /\ engine.pattern # None) => PatternsAgree

\* The kernel has applied a toggle of step 0 of track 0, a parameter lock was
\* reported through push_midi_command, everything is drained, and the MIDI
\* engine still has the step as it was loaded.
C24_Witness ==
    /\ Quiet
    /\ engine.pattern # None
    /\ \E i \in 1..Len(obs.applied) : obs.applied[i] = ToggleStep(0, 0)
    /\ mobs.attempts >= 2
    /\ StepAt(kernel.pattern, 0, 0).trig_type = "Note"
    /\ StepAt(engine.pattern[1], 0, 0).trig_type = "None"

(***************************************************************************)
(* The control surface's tracks.                                           *)
(***************************************************************************)
\* The step just taken pressed a remove button: the row's button or the
\* dialog's "Remove Track".
RemovePressed == uobs'.op \in {"handle_click", "on_confirm_remove"}

\* C25: the pattern always keeps at least one track, and a removal asked for
\* while one track remains leaves the pattern as it is.
C25_LastTrackStays ==
    [][/\ Len(pattern_signal'.tracks) >= 1
       /\ (RemovePressed /\ Len(pattern_signal.tracks) = 1)
              => pattern_signal' = pattern_signal]_vars

\* The remove button of the only remaining track was pressed, and the track
\* is still there.
C25_Witness ==
    /\ uobs = Ran("handle_click", 0, 1)
    /\ Len(pattern_signal.tracks) = 1
    /\ show_confirm_dialog = None

\* C26: every track's id is its position in the pattern's track sequence.
C26_IdIsPosition ==
    \A i \in 1..Len(pattern_signal.tracks) : pattern_signal.tracks[i].id = i - 1

\* The first of five tracks has just been removed after confirmation: the
\* four that moved up are numbered from 0 again.
C26_Witness ==
    /\ uobs = Ran("on_confirm_remove", 0, 5)
    /\ Len(pattern_signal.tracks) = 4
    /\ pattern_signal.tracks[4].id = 3
    /\ HasData(pattern_signal, 0)

(***************************************************************************)
(* LFO evaluation.                                                         *)
(***************************************************************************)
\* The calls of calculate_lfo of the tick just processed.
CallsOf(o) == {o.lfo_calls[i] : i \in 1..Len(o.lfo_calls)}

\* An LFO of the given shape kind with speed 1 and no phase offset.
Plain(lfo, kind) == lfo.shape.kind = kind /\ lfo.speed = 1 /\ lfo.phase = 0

\* C27: for a Designer LFO with table P, speed 1, phase offset 0 and amount a,
\* the value at global phase p = gp / 96 is a * (P[i] + (P[(i + 1) mod 16] -
\* P[i]) * f) with i = floor(16 p) and f = 16 p - i (here times 96, both sides
\* in the same units); for P = 0, 1, 0, .. and a = 1 it is 0 at p = 0, 1/2 at
\* p = 0.5 / 16 and 1 at p = 1 / 16.
C27_DesignerInterpolation ==
    [][TickStep =>
        \A c \in CallsOf(mobs') :
            Plain(c[1], "Designer") =>
                LET P == c[1].shape.points
                    a == c[1].amount
                    gp == c[2]
                    v == c[3]
                    i == (16 * gp) \div 96
                    f96 == 16 * gp - 96 * i
                IN  /\ v.den = 6000000
                    /\ 16 * v.num
                         = a * (96 * P[i + 1]
                                + (P[((i + 1) % 16) + 1] - P[i + 1]) * f96)
                    /\ (P = SpikePoints /\ a = 1000) =>
                          /\ gp = 0 => v.num = 0
                          /\ gp = 3 => 2 * v.num = v.den
                          /\ gp = 6 => v.num = v.den]_vars

\* Tick 3 of the pattern with the table 0, 1, 0, ..: the value is 1/2.
C27_Witness ==
    /\ tick_count = 4
    /\ engine.pattern = Some(SpikePattern)
    /\ \E c \in CallsOf(mobs) :
          /\ c[1].shape = Designer(SpikePoints)
          /\ c[2] = 3
          /\ 2 * c[3].num = c[3].den

StepLengthOf(k) ==
    /\ k.tempo = 120
    /\ k.samples_per_step * (k.tempo * 4) = k.sample_rate * 60 * 8
    /\ k.samples_per_step * 480 = k.sample_rate * 60 * 8

\* C29: in every state of the kernel samples_per_step is sample_rate * 60 /
\* (tempo * 4), which at the 120 BPM of construction is sample_rate * 60 /
\* 480, and no step changes the tempo or samples_per_step.
C29_StepLength ==
    [][/\ StepLengthOf(kernel)
       /\ StepLengthOf(kernel')
       /\ kernel'.tempo = kernel.tempo
       /\ kernel'.samples_per_step = kernel.samples_per_step]_vars

\* At 2.5 samples to the step: Play, a step toggle and a parameter lock have
\* been applied and a frame has been written.
C29_Witness ==
    /\ kernel.sample_rate = 20
    /\ kernel.samples_per_step = 20
    /\ kernel.is_playing
    /\ obs.calls >= 1
    /\ Len(obs.written) >= 1
    /\ \E i \in 1..Len(obs.applied) : obs.applied[i].op = "ToggleStep"
    /\ \E i \in 1..Len(obs.applied) : obs.applied[i].op = "SetParamLock"

(***************************************************************************)
(* LFO commands that miss.                                                 *)
(***************************************************************************)
\* cmd is an LFO command that engine e cannot carry out: no pattern, no such
\* track or LFO, or a table value for a step past the 16th or for an LFO
\* that is not a Designer.
Misses(e, cmd) ==
    /\ cmd.op \in {"SetLFOShape", "SetLFODesignerValue"}
    /\ \/ e.pattern = None
       \/ cmd.track >= Len(e.pattern[1].tracks)
       \/ cmd.lfo >= Len(e.pattern[1].tracks[cmd.track + 1].lfos)
       \/ /\ cmd.op = "SetLFODesignerValue"
          /\ \/ cmd.step >= 16
             \/ e.pattern[1].tracks[cmd.track + 1].lfos[cmd.lfo + 1].shape.kind
                    # "Designer"

\* C30: an LFO command that misses leaves the MIDI engine's pattern and tempo
\* as they were.
C30_MissesIgnored ==
    [][(Len(mobs'.applied) = Len(mobs.applied) + 1
            /\ Misses(engine, Last(mobs'.applied)))
          => engine' = engine]_vars

\* A table value for a step past the 16th and one for a Triangle LFO have
\* been applied to the loaded pattern, and a shape for a missing track before
\* it was loaded: the pattern is the one that was sent.
C30_Witness ==
    /\ Len(mobs.applied) = 3
    /\ mobs.applied[1] = SetLFOShape(4, 0, Shape("Square"))
    /\ mobs.applied[2] = UpdatePattern(SentPattern)
    /\ mobs.applied[3] \in {SetLFODesignerValue(0, 0, 16, 500),
                            SetLFODesignerValue(1, 0, 0, 500)}
    /\ engine.pattern = Some(SentPattern)
    /\ engine.bpm = SentPattern.bpm

(***************************************************************************)
(* The kernel's voice and clock, frame by frame.                           *)
(***************************************************************************)
\* The step just taken is one iteration of the frame loop.
FrameStep == kpc = "frames" /\ framesLeft' = framesLeft - 1

PollDone == poller.pc # "sleep" /\ poller'.pc = "sleep"

\* C32: an iteration of the poller emits an event, carrying the snapshot's
\* current_step, exactly when that differs from the current_step of the last
\* event emitted or no event has been emitted yet; and no two consecutive
\* events carry the same current_step.
C32_EmitsOnStepChange ==
    [][/\ PollDone =>
            LET new == \/ events = <<>>
                       \/ Last(events).current_step # poller'.step
            IN  IF new
                THEN /\ Len(events') = Len(events) + 1
                     /\ SubSeq(events', 1, Len(events)) = events
                     /\ Last(events').current_step = poller'.step
                ELSE events' = events
       /\ ~PollDone => events' = events
       /\ \A i \in 1..(Len(events') - 1) :
             events'[i].current_step # events'[i + 1].current_step]_vars

\* Two reads: the first emitted an event, the second found a newer snapshot
\* with the same current_step and emitted none.
C32_Witness ==
    /\ poller.polls = 2
    /\ poller.pc = "sleep"
    /\ Len(events) = 1
    /\ poller.heldBy > poller.prevBy
    /\ poller.step = events[1].current_step

C34_StoppedIsRewound ==
    ~kernel.is_playing =>
        /\ kernel.current_step = 15
        /\ kernel.playhead_sample = 0
        /\ kernel.step_phase = kernel.samples_per_step

\* The kernel has played at least one frame and has been stopped since.
C34_Witness ==
    /\ ~kernel.is_playing
    /\ obs.framesSincePlay >= 1
    /\ obs.applied # <<>>
    /\ Last(obs.applied) = Stop
    /\ kpc = "idle"

\* The clock's fields are in range: a step index below 16 and a phase between
\* 0 and the step length.
ClockInRange ==
    /\ kernel.current_step \in 0..15
    /\ 0 <= kernel.step_phase
    /\ kernel.step_phase <= kernel.samples_per_step

\* The step index stays or moves on by one, around the 16 steps.
StepAdvancesByAtMostOne ==
    \/ kernel'.current_step = kernel.current_step
    \/ kernel'.current_step = (kernel.current_step + 1) % 16

\* C35, as stated: with a step of at least one sample the clock's fields stay
\* in range, the phase is below the step length after every frame processed
\* while playing, and the step index advances by at most one per frame.
C35_PhaseBelowStepLength ==
    /\ ClockInRange
    /\ [][/\ ClockInRange'
          /\ (FrameStep /\ kernel.is_playing) =>
                /\ kernel'.step_phase < kernel.samples_per_step
                /\ StepAdvancesByAtMostOne]_vars

\* C35, amended: the phase is below the step length after every playing frame
\* when the step is longer than one sample; when the step is exactly one
\* sample the phase equals the step length after every playing frame.
C35_PhaseBelowLongerStep ==
    /\ ClockInRange
    /\ [][/\ ClockInRange'
          /\ (FrameStep /\ kernel.is_playing) =>
                /\ kernel.samples_per_step > 8
                      => kernel'.step_phase < kernel.samples_per_step
                /\ kernel.samples_per_step = 8
                      => kernel'.step_phase = kernel.samples_per_step
                /\ StepAdvancesByAtMostOne]_vars

\* A kernel whose step is one sample long has played a frame: the step index
\* moved on and the phase is the whole step length again.
C35_Witness ==
    /\ kernel.samples_per_step = 8
    /\ kernel.is_playing
    /\ obs.framesSincePlay >= 1
    /\ kernel.step_phase = kernel.samples_per_step

\* A step of, or beside, an invocation of process that has applied no command,
\* on a stopped kernel.
InQuietStoppedCall ==
    /\ kpc # "idle" \/ kpc' # "idle"
    /\ ~kernel.is_playing
    /\ obs'.popped = 0

\* C36: an invocation of process on a stopped kernel that finds no command
\* leaves the kernel as it was and fills the output buffer with silence.
C36_StoppedCallIsSilent ==
    [][InQuietStoppedCall =>
          /\ kernel' = kernel
          /\ FrameStep => Last(output_buffer') = Silence
          /\ (kpc = "publish" /\ kpc' = "idle") =>
                /\ output_buffer # <<>>
                /\ \A i \in 1..Len(output_buffer) : output_buffer[i] = Silence]_vars

\* The kernel played and was stopped during the first invocation; the second
\* found no command and has returned.
C36_Witness ==
    /\ kpc = "idle"
    /\ obs.calls = 2
    /\ obs.popped = 0
    /\ ~kernel.is_playing
    /\ obs.applied # <<>>
    /\ output_buffer # <<>>

\* C37: a Play command applied to a kernel that is already playing changes no
\* field of it: the clock, the playhead and the frequency go on from where
\* they are.
C37_PlayWhilePlaying ==
    [][(Applies(Play) /\ kernel.is_playing) => kernel' = kernel]_vars

\* A second Play has just been applied to a kernel that had already played
\* frames and moved off the start position.
C37_Witness ==
    /\ kpc = "drain"
    /\ Len(obs.applied) >= 2
    /\ Last(obs.applied) = Play
    /\ obs.applied[Len(obs.applied) - 1] = Play
    /\ kernel.is_playing
    /\ obs.framesSincePlay >= 1
    /\ kernel.current_step # StartStep
    /\ kernel.playhead_sample > 0

\* The MIDI engine's own state: its fields, queue, loop position and clock.
midiState == <<engine, midiQueue, mpc, tick_count, midi_out, next_tick_time, clock>>

\* C38: what the MIDI engine sends depends on its own commands and its tick
\* count alone.  No step of the audio side (a command pushed to or applied by
\* the kernel, a frame) changes any of the MIDI engine's state; the engine's
\* fields change only by applying one of its own commands; and every tick
\* sends what process_tick gives for the tick count and the loaded pattern,
\* whatever the audio transport is doing.
C38_MidiIgnoresAudio ==
    [][/\ (kernel' # kernel \/ audioQueue' # audioQueue \/ obs' # obs)
              => UNCHANGED midiState
       /\ engine' # engine
              => \E i \in 1..Len(midiQueue) :
                    /\ EngineApplies(midiQueue[i])
                    /\ engine' = ApplyEngineCommand(engine, midiQueue[i])
       /\ midi_out' # midi_out => tick_count' = tick_count + 1
       /\ TickStep => midi_out' = process_tick(tick_count, engine.pattern[1])]_vars

\* The kernel was started and stopped again, and the MIDI engine's first tick
\* has sent its note all the same.
C38_Witness ==
    /\ tick_count = 1
    /\ \E i \in 1..Len(midi_out) : midi_out[i][1] \div 16 = 9
    /\ ~kernel.is_playing
    /\ Len(obs.applied) >= 2
    /\ Last(obs.applied) = Stop

\* The tick just processed is the first step-boundary tick since the pattern
\* was loaded: fewer than a step's worth of ticks have run with it.
FirstBoundaryAfterLoad == TickStep /\ OnBoundary /\ mobs.ticks < TicksPerStep

\* C39: the tick count goes up by exactly one at the end of every iteration of
\* the loop, with or without a pattern, and changes at no other step: no
\* command resets it.  The first step-boundary tick after the pattern is
\* loaded plays the step (tick_count / 6) mod 16 of the running count.
C39_TickCountRunsOn ==
    [][/\ (mpc = "wait" /\ mpc' = "drain") => tick_count' = tick_count + 1
       /\ tick_count' # tick_count
              => mpc = "wait" /\ tick_count' = tick_count + 1
       /\ (mobs'.applied # mobs.applied) => tick_count' = tick_count
       /\ FirstBoundaryAfterLoad
              => NoteOnsFor(engine.pattern[1],
                            (tick_count \div 6) % 16, {"Note"}, midi_out')]_vars

\* The pattern was loaded while ticks 1 to 5 were running: the first notes
\* come on tick 6 and are step 1's (61), not step 0's.
C39_Witness ==
    /\ tick_count = 7
    /\ mobs.ticks \in 1..5
    /\ engine.pattern = Some(LatePattern)
    /\ \E i \in NoteOns(midi_out) : midi_out[i][2] = 61
    /\ \A i \in NoteOns(midi_out) : midi_out[i][2] # 60

\* Stop is the last command applied and the last one sent, the invocation
\* that applied it has published its snapshot, and the poller has a poll
\* still to make.
StopPublished ==
    /\ obs.applied # <<>>
    /\ Last(obs.applied) = Stop
    /\ Len(obs.applied) = Len(obs.pushed)
    /\ Last(obs.pushed) = Stop
    /\ kpc = "idle"
    /\ poller.pc = "sleep"
    /\ poller.polls < MaxPolls

\* The consumer's latest event says the transport is stopped.
ConsumerSeesStopped == events # <<>> /\ ~Last(events).is_playing

\* C40: once the kernel has applied Stop, with no further command sent, the
\* poller eventually emits a playback-status event whose is_playing is false;
\* so the latest event the consumer has then says stopped.
C40_StopReachesConsumer == StopPublished ~> ConsumerSeesStopped

\* The kernel was stopped on step 15 after the poller had reported step 15
\* playing; the poller has since read the stopped snapshot, found the step
\* index unchanged and emitted nothing.
C40_Witness ==
    /\ ~kernel.is_playing
    /\ obs.applied # <<>>
    /\ Last(obs.applied) = Stop
    /\ kpc = "idle"
    /\ poller.pc = "sleep"
    /\ poller.heldBy = obs.calls
    /\ ~Held(tb).is_playing
    /\ Held(tb).current_step = poller.last_step
    /\ events # <<>>
    /\ Last(events).is_playing

=============================================================================
